---------------------------- MODULE Spec2Model ----------------------------
(***************************************************************************)
(* A model of grpcwebcurl's protocol layer: the gRPC-Web frame codec       *)
(* (pkg/protocol), the client calls built on it (pkg/client) and the       *)
(* callers of those calls (cmd, reflection client).                        *)
(*                                                                         *)
(* A byte is an integer 0..255 and a byte string ([]byte, string) is a     *)
(* sequence of bytes.  Go's int is taken to be 64 bits wide (the default   *)
(* builds), so int(uint32) never overflows.  TLC's integers are 32 bits    *)
(* wide: lengths of 2^31 and more are told by the top bit of their first   *)
(* byte, and every configured size limit of the model is below 2^31.       *)
(***************************************************************************)
EXTENDS Integers, Sequences, FiniteSets, TLC

(***************************************************************************)
(* Bytes and byte strings                                                  *)
(***************************************************************************)
LF == 10
CR == 13
COLON == 58

Min(a, b) == IF a < b THEN a ELSE b

\* s[from..] (1-based), the empty string when from is past the end
Tail2(s, from) == SubSeq(s, from, Len(s))

(***************************************************************************)
(* encoder: FrameType, Frame, Encoder.EncodeFrame, EncodeMessage           *)
(***************************************************************************)
FrameData == 0
FrameTrailer == 128

Frame(type, payload) == [Type |-> type, Payload |-> payload]

\* binary.BigEndian.PutUint32(buf, v)
PutUint32(v) ==
    << (v \div 16777216) % 256, (v \div 65536) % 256, (v \div 256) % 256, v % 256 >>

\* binary.BigEndian.Uint32(b), for b[1] < 128
Uint32(b) == b[1] * 16777216 + b[2] * 65536 + b[3] * 256 + b[4]

\* int(binary.BigEndian.Uint32(b)) > limit, for a limit below 2^31.  int has
\* 64 bits on every platform the Makefile builds for, so the conversion keeps
\* the value and a length of 2^31 or more exceeds every such limit.
Uint32Exceeds(b, limit) == b[1] >= 128 \/ Uint32(b) > limit

\* Encoder.EncodeFrame on a bytes.Buffer writer (whose Write never fails):
\* the three writes, in order.  uint32(len(payload)) is len(payload) for
\* every payload shorter than 4 GiB.
EncodeFrame_LittleEndian(frame) ==
    LET b == PutUint32(Len(frame.Payload))
    IN  << frame.Type >> \o << b[4], b[3], b[2], b[1] >> \o frame.Payload

EncodeFrame(frame) ==
    << frame.Type >> \o PutUint32(Len(frame.Payload)) \o frame.Payload

\* Encoder.Encode / EncodeMessage: a Data frame around the message
EncodeMessage(message) == EncodeFrame(Frame(FrameData, message))

(***************************************************************************)
(* decoder: the reader, io.ReadFull, Decoder.DecodeFrame/Decode/DecodeAll  *)
(***************************************************************************)
MaxMessageSize == 16 * 1024 * 1024

\* An io.Reader: the bytes it will deliver, the number already consumed, and
\* where the underlying read breaks: failAt = -1 is a reader that delivers
\* all of data and then io.EOF (a bytes.Reader, a complete HTTP body);
\* failAt = k delivers k bytes and then a read error other than io.EOF (the
\* transport aborted or timed out the read).
Reader(data, failAt) == [data |-> data, pos |-> 0, failAt |-> failAt]

Limit(r) == IF r.failAt >= 0 THEN Min(r.failAt, Len(r.data)) ELSE Len(r.data)

Broken(r) == r.failAt >= 0

\* io.ReadFull(r, buf) with len(buf) = n: [err, buf, r] where r is the
\* reader afterwards.  io.EOF only if no byte was read; io.ErrUnexpectedEOF
\* after a partial read that ends in EOF; any other read error as it is.
ReadFull_EOFOnShortRead(r, n) ==
    LET avail == Limit(r) - r.pos
    IN  IF n = 0
        THEN [err |-> "nil", buf |-> << >>, r |-> r]
        ELSE IF avail >= n
        THEN [err |-> "nil",
              buf |-> SubSeq(r.data, r.pos + 1, r.pos + n),
              r   |-> [r EXCEPT !.pos = r.pos + n]]
        ELSE [err |-> "EOF",
              buf |-> SubSeq(r.data, r.pos + 1, r.pos + avail),
              r   |-> [r EXCEPT !.pos = r.pos + avail]]

ReadFull(r, n) ==
    LET avail == Limit(r) - r.pos
    IN  IF n = 0
        THEN [err |-> "nil", buf |-> << >>, r |-> r]
        ELSE IF avail >= n
        THEN [err |-> "nil",
              buf |-> SubSeq(r.data, r.pos + 1, r.pos + n),
              r   |-> [r EXCEPT !.pos = r.pos + n]]
        ELSE [err |-> IF Broken(r) THEN "io"
                      ELSE IF avail = 0 THEN "EOF" ELSE "ErrUnexpectedEOF",
              buf |-> SubSeq(r.data, r.pos + 1, r.pos + avail),
              r   |-> [r EXCEPT !.pos = r.pos + avail]]

NoFrame == [Type |-> -1, Payload |-> << >>]

\* the error fmt.Errorf("failed to read frame payload: %w", err)
WrapPayload(err) ==
    CASE err = "EOF" -> "payload(EOF)"
      [] err = "ErrUnexpectedEOF" -> "payload(ErrUnexpectedEOF)"
      [] OTHER -> "payload(io)"

\* Decoder.DecodeFrame: [frame, err, r, alloc]; alloc is the length of the
\* payload buffer made by make([]byte, length), -1 when none was made.
DecodeFrame_DefaultLimit(r, maxMsgSize) ==
    LET Header(h) ==
            LET length == Uint32(SubSeq(h.buf, 2, 5))
                Payload(p) ==
                    IF p.err # "nil"
                    THEN [frame |-> NoFrame, err |-> WrapPayload(p.err),
                          r |-> p.r, alloc |-> length]
                    ELSE [frame |-> Frame(h.buf[1], p.buf), err |-> "nil",
                          r |-> p.r, alloc |-> length]
            IN  IF h.err # "nil"
                THEN [frame |-> NoFrame, err |-> h.err, r |-> h.r, alloc |-> -1]
                ELSE IF Uint32Exceeds(SubSeq(h.buf, 2, 5), MaxMessageSize)
                THEN [frame |-> NoFrame, err |-> "size", r |-> h.r, alloc |-> -1]
                ELSE Payload(ReadFull(h.r, length))
    IN  Header(ReadFull(r, 5))

DecodeFrame(r, maxMsgSize) ==
    LET Header(h) ==
            LET length == Uint32(SubSeq(h.buf, 2, 5))
                Payload(p) ==
                    IF p.err # "nil"
                    THEN [frame |-> NoFrame, err |-> WrapPayload(p.err),
                          r |-> p.r, alloc |-> length]
                    ELSE [frame |-> Frame(h.buf[1], p.buf), err |-> "nil",
                          r |-> p.r, alloc |-> length]
            IN  IF h.err # "nil"
                THEN [frame |-> NoFrame, err |-> h.err, r |-> h.r, alloc |-> -1]
                ELSE IF Uint32Exceeds(SubSeq(h.buf, 2, 5), maxMsgSize)
                THEN [frame |-> NoFrame, err |-> "size", r |-> h.r, alloc |-> -1]
                ELSE Payload(ReadFull(h.r, length))
    IN  Header(ReadFull(r, 5))

\* Decoder.Decode: the payload of the next frame of type FrameData
RECURSIVE Decode(_, _)
Decode(r, maxMsgSize) ==
    LET Decoded(d) ==
            IF d.err # "nil" THEN [data |-> << >>, err |-> d.err, r |-> d.r]
            ELSE IF d.frame.Type = FrameData
            THEN [data |-> d.frame.Payload, err |-> "nil", r |-> d.r]
            ELSE Decode(d.r, maxMsgSize)
    IN  Decoded(DecodeFrame(r, maxMsgSize))

\* Decoder.DecodeAll: [frames, err, r]
RECURSIVE DecodeAllFrom_DropOnError(_, _, _)
DecodeAllFrom_DropOnError(r, maxMsgSize, frames) ==
    LET Decoded(d) ==
            IF d.err = "EOF" THEN [frames |-> frames, err |-> "nil", r |-> d.r]
            ELSE IF d.err # "nil" THEN [frames |-> << >>, err |-> d.err, r |-> d.r]
            ELSE DecodeAllFrom_DropOnError(d.r, maxMsgSize, Append(frames, d.frame))
    IN  Decoded(DecodeFrame(r, maxMsgSize))

RECURSIVE DecodeAllFrom(_, _, _)
DecodeAllFrom(r, maxMsgSize, frames) ==
    LET Decoded(d) ==
            IF d.err = "EOF" THEN [frames |-> frames, err |-> "nil", r |-> d.r]
            ELSE IF d.err # "nil" THEN [frames |-> frames, err |-> d.err, r |-> d.r]
            ELSE DecodeAllFrom(d.r, maxMsgSize, Append(frames, d.frame))
    IN  Decoded(DecodeFrame(r, maxMsgSize))

DecodeAll(r, maxMsgSize) == DecodeAllFrom(r, maxMsgSize, << >>)

\* DecodeMessage(data): NewDecoder(bytes.NewReader(data)).Decode()
DecodeMessage(data) ==
    LET Decoded(d) == [data |-> d.data, err |-> d.err]
    IN  Decoded(Decode(Reader(data, -1), MaxMessageSize))

(***************************************************************************)
(* strings and fmt helpers used by the trailer parsers                     *)
(***************************************************************************)
\* the least index i >= from with s[i] = b, 0 when there is none
IndexByte(s, from, b) ==
    LET S == {i \in from..Len(s) : s[i] = b}
    IN  IF S = {} THEN 0 ELSE CHOOSE i \in S : \A j \in S : i <= j

\* unicode.IsSpace on ASCII: \t \n \v \f \r and the space
IsSpace(b) == b \in {9, 10, 11, 12, 13, 32}

RECURSIVE LeadingSpaces(_, _)
LeadingSpaces(s, i) ==
    IF i <= Len(s) /\ IsSpace(s[i]) THEN LeadingSpaces(s, i + 1) ELSE i - 1

RECURSIVE TrailingSpaces(_, _)
TrailingSpaces(s, i) ==
    IF i >= 1 /\ IsSpace(s[i]) THEN TrailingSpaces(s, i - 1) ELSE Len(s) - i

\* strings.TrimSpace on ASCII text
TrimSpace(s) ==
    LET a == LeadingSpaces(s, 1)
    IN  IF a = Len(s) THEN << >>
        ELSE SubSeq(s, a + 1, Len(s) - TrailingSpaces(s, Len(s)))

\* strings.ToLower on ASCII text
ToLower(s) ==
    [i \in 1..Len(s) |-> IF s[i] >= 65 /\ s[i] <= 90 THEN s[i] + 32 ELSE s[i]]

\* strings.SplitN(line, ":", 2): one part when there is no colon
SplitColon(line) ==
    LET c == IndexByte(line, 1, COLON)
    IN  IF c = 0 THEN << line >>
        ELSE << SubSeq(line, 1, c - 1), Tail2(line, c + 1) >>

IsDigit(b) == b >= 48 /\ b <= 57

\* the end of the run of bytes accepted by scanNumber from index i on
\* (decimalDigits = "0123456789_")
RECURSIVE NumberEnd(_, _)
NumberEnd(s, i) ==
    IF i <= Len(s) /\ (IsDigit(s[i]) \/ s[i] = 95)
    THEN NumberEnd(s, i + 1) ELSE i - 1

RECURSIVE DigitsValue(_, _, _, _)
DigitsValue(s, i, last, acc) ==
    IF i > last THEN acc
    ELSE DigitsValue(s, i + 1, last, acc * 10 + (s[i] - 48))

\* code := 0; fmt.Sscanf(value, "%d", &code): an optional sign and the
\* longest run of digits that follows; code stays 0 when the scan fails
\* (no digit, an underscore in the token).  Defined for tokens of up to 9
\* digits, which is all the model builds.
SscanfInt(value) ==
    LET v == Tail2(value, LeadingSpaces(value, 1) + 1)
        signed == Len(v) > 0 /\ v[1] \in {43, 45}
        first == IF signed THEN 2 ELSE 1
        last == NumberEnd(v, first)
    IN  IF last < first THEN 0
        ELSE IF \E i \in first..last : v[i] = 95 THEN 0
        ELSE LET n == DigitsValue(v, first, last, 0)
             IN  IF signed /\ v[1] = 45 THEN 0 - n ELSE n

GrpcStatusKey == << 103, 114, 112, 99, 45, 115, 116, 97, 116, 117, 115 >>
GrpcMessageKey == << 103, 114, 112, 99, 45, 109, 101, 115, 115, 97, 103, 101 >>

\* map[string]string as a function on the set of its keys
EmptyMap == [k \in {} |-> << >>]

MapPut(m, k, v) == [x \in (DOMAIN m) \cup {k} |-> IF x = k THEN v ELSE m[x]]

\* for key, value := range src { dst[key] = value }
MapMerge(dst, src) ==
    [x \in (DOMAIN dst) \cup (DOMAIN src) |-> IF x \in DOMAIN src THEN src[x] ELSE dst[x]]

MapGet(m, k) == IF k \in DOMAIN m THEN m[k] ELSE << >>

(***************************************************************************)
(* decoder: Status, parseTrailers, DecodeResponse                          *)
(***************************************************************************)
NilStatus == [nil |-> TRUE, Code |-> 0, Message |-> << >>]

Status(code, message) == [nil |-> FALSE, Code |-> code, Message |-> message]

\* bufio.MaxScanTokenSize: the Scanner gives up (Scan returns false) on a
\* line that does not end within its buffer of this size
MaxScanTokenSize == 64 * 1024

\* bufio.ScanLines with dropCR on data[pos+1..]: [ok, line, pos]; ok is
\* FALSE when the scan ends (no data left, or the token is too long)
ScanLine(data, pos) ==
    LET nl == IndexByte(data, pos + 1, LF)
        end == IF nl = 0 THEN Len(data) ELSE nl - 1
        raw == SubSeq(data, pos + 1, end)
        line == IF Len(raw) > 0 /\ raw[Len(raw)] = CR
                THEN SubSeq(raw, 1, Len(raw) - 1) ELSE raw
    IN  IF pos >= Len(data) THEN [ok |-> FALSE, line |-> << >>, pos |-> pos]
        ELSE IF Len(raw) >= MaxScanTokenSize
        THEN [ok |-> FALSE, line |-> << >>, pos |-> pos]
        ELSE [ok |-> TRUE, line |-> line,
              pos |-> IF nl = 0 THEN Len(data) ELSE nl]

\* the body of parseTrailers' loop for one line
TrailerLine(line, acc) ==
    LET parts == SplitColon(line)
        key == TrimSpace(ToLower(parts[1]))
        value == TrimSpace(parts[2])
        st == IF acc.status.nil THEN Status(0, << >>) ELSE acc.status
    IN  IF line = << >> \/ Len(parts) # 2 THEN acc
        ELSE [trailers |-> MapPut(acc.trailers, key, value),
              status |->
                 IF key = GrpcStatusKey
                 THEN [st EXCEPT !.Code = SscanfInt(value)]
                 ELSE IF key = GrpcMessageKey
                 THEN [st EXCEPT !.Message = value]
                 ELSE acc.status]

RECURSIVE ParseTrailersFrom(_, _, _)
ParseTrailersFrom(data, pos, acc) ==
    LET s == ScanLine(data, pos)
    IN  IF ~s.ok THEN acc
        ELSE ParseTrailersFrom(data, s.pos, TrailerLine(s.line, acc))

\* parseTrailers(data): [trailers, status]
parseTrailers(data) ==
    ParseTrailersFrom(data, 0, [trailers |-> EmptyMap, status |-> NilStatus])

NoResponse_OKStatus == [Messages |-> << >>, Trailers |-> EmptyMap, Status |-> Status(0, << >>)]

NoResponse == [Messages |-> << >>, Trailers |-> EmptyMap, Status |-> NilStatus]

\* the body of DecodeResponse's loop over the frames
ResponseFrame(resp, frame) ==
    LET Merged(t) == [resp EXCEPT !.Trailers = MapMerge(resp.Trailers, t.trailers),
                                  !.Status = IF t.status.nil THEN resp.Status
                                             ELSE t.status]
    IN  IF frame.Type = FrameData
        THEN [resp EXCEPT !.Messages = Append(resp.Messages, frame.Payload)]
        ELSE IF frame.Type = FrameTrailer THEN Merged(parseTrailers(frame.Payload))
        ELSE IF frame.Type >= 128 THEN Merged(parseTrailers(frame.Payload))
        ELSE resp

RECURSIVE FoldFrames(_, _, _)
FoldFrames(resp, frames, i) ==
    IF i > Len(frames) THEN resp
    ELSE FoldFrames(ResponseFrame(resp, frames[i]), frames, i + 1)

\* DecodeResponse(data): [resp, err]
DecodeResponse(data) ==
    LET Decoded(all) ==
            IF all.err # "nil" /\ all.err # "EOF"
            THEN [resp |-> NoResponse, err |-> "decode"]
            ELSE [resp |-> FoldFrames(NoResponse, all.frames, 1), err |-> "nil"]
    IN  Decoded(DecodeAll(Reader(data, -1), MaxMessageSize))

(***************************************************************************)
(* The reply of the server, as the transport delivers it                   *)
(***************************************************************************)
Repeat(b, n) == [i \in 1..n |-> b]

\* a line of trailer text is written down as a text and the number of bytes
\* "x" that follow it
Line(text) == [text |-> text, pad |-> 0]

LineBytes(l) == l.text \o Repeat(120, l.pad)

\* the text of a trailer frame: its lines, each ended by CRLF
RECURSIVE JoinCRLF(_)
JoinCRLF(lines) ==
    IF lines = << >> THEN << >>
    ELSE Head(lines) \o << CR, LF >> \o JoinCRLF(Tail(lines))

\* what the server writes for one frame, and what it is made of: a payload,
\* or (text) the lines of a trailer block
FrameSpec(flag, payload, lines, text) ==
    [flag |-> flag, payload |-> payload, lines |-> lines, text |-> text]

DataF(payload) == FrameSpec(0, payload, << >>, FALSE)

TextF(flag, lines) == FrameSpec(flag, << >>, [i \in 1..Len(lines) |-> Line(lines[i])], TRUE)

TrailerF(lines) == TextF(128, lines)

\* the lines and the payload bytes of a frame
LinesOf(f) == [i \in 1..Len(f.lines) |-> LineBytes(f.lines[i])]

PayloadOf(f) == IF f.text THEN JoinCRLF(LinesOf(f)) ELSE f.payload

RECURSIVE Wire(_)
Wire(frames) ==
    IF frames = << >> THEN << >>
    ELSE LET f == Head(frames)
             p == PayloadOf(f)
             n == Len(p)
         IN  << f.flag, n \div 16777216, (n \div 65536) % 256, (n \div 256) % 256, n % 256 >>
             \o p \o Wire(Tail(frames))

\* a reply: the transport's outcome, the HTTP status and headers, and the
\* body.  The body is the first `sent' bytes of the frames on the wire (all
\* of them when sent = -1), or the bytes `raw' of a reply that is not made of
\* frames or that the encoder made (kind "raw", "encoded"); the read of the
\* body breaks after failAt bytes (never when failAt = -1).
Reply(kind, frames, raw, sent, failAt) ==
    [transport |-> "ok", StatusCode |-> 200, GrpcStatus |-> << >>, GrpcMessage |-> << >>,
     kind |-> kind, frames |-> frames, raw |-> raw, sent |-> sent, failAt |-> failAt]

Body(h) ==
    IF h.kind \in {"raw", "encoded"} THEN h.raw
    ELSE IF h.sent = -1 THEN Wire(h.frames)
    ELSE SubSeq(Wire(h.frames), 1, h.sent)

(***************************************************************************)
(* client: Options, NewClient, Response, Client.Invoke                     *)
(***************************************************************************)
\* an Options value, of which the model keeps MaxMessageSize (0 when the
\* field is left unset), and the nil *Options
Options(size) == [nil |-> FALSE, MaxMessageSize |-> size]

NilOptions == [nil |-> TRUE, MaxMessageSize |-> 0]

\* DefaultOptions()
DefaultOptions == Options(MaxMessageSize)

\* NewClient(baseURL, opts)
NewClient(opts) ==
    LET o == IF opts.nil THEN DefaultOptions ELSE opts
    IN  [maxMsgSize |-> o.MaxMessageSize]

NilResponse ==
    [nil |-> TRUE, Messages |-> << >>, Trailers |-> EmptyMap,
     Status |-> NilStatus, HTTPStatus |-> 0]

Response(messages, trailers, status, httpStatus) ==
    [nil |-> FALSE, Messages |-> messages, Trailers |-> trailers,
     Status |-> status, HTTPStatus |-> httpStatus]

\* GetGRPCStatus(resp): the Grpc-Status and Grpc-Message response headers
GetGRPCStatus(h) ==
    [code |-> IF h.GrpcStatus # << >> THEN SscanfInt(h.GrpcStatus) ELSE 0,
     msg |-> h.GrpcMessage]

\* the "Check for HTTP errors" branch shared by Invoke and InvokeServerStream
HTTPError_CodeOnly(h) ==
    LET g == GetGRPCStatus(h)
    IN  IF g.code # 0
        THEN [resp |-> Response(<< >>, EmptyMap, Status(g.code, g.msg), h.StatusCode),
              err |-> "nil"]
        ELSE [resp |-> NilResponse, err |-> "HTTP error"]

HTTPError(h) ==
    LET g == GetGRPCStatus(h)
    IN  IF g.code # 0 \/ g.msg # << >>
        THEN [resp |-> Response(<< >>, EmptyMap, Status(g.code, g.msg), h.StatusCode),
              err |-> "nil"]
        ELSE [resp |-> NilResponse, err |-> "HTTP error"]

\* io.ReadAll(httpResp.Body)
ReadAll(r) ==
    IF Broken(r) THEN [data |-> SubSeq(r.data, 1, Limit(r)), err |-> "io"]
    ELSE [data |-> r.data, err |-> "nil"]

\* Client.Invoke from httpClient.Do on: h is what the transport and the
\* server make of the request.  [resp, err]
Invoke(client, h) ==
    LET Decoded(decoded) ==
            IF decoded.err # "nil"
            THEN [resp |-> NilResponse, err |-> "failed to decode response"]
            ELSE [resp |-> Response(decoded.resp.Messages, decoded.resp.Trailers,
                                    decoded.resp.Status, h.StatusCode),
                  err |-> "nil"]
        Read(body) ==
            IF body.err # "nil"
            THEN [resp |-> NilResponse, err |-> "failed to read response"]
            ELSE IF h.StatusCode # 200 THEN HTTPError(h)
            ELSE Decoded(DecodeResponse(body.data))
    IN  IF h.transport # "ok" THEN [resp |-> NilResponse, err |-> "request failed"]
        ELSE Read(ReadAll(Reader(Body(h), h.failAt)))

(***************************************************************************)
(* client: Client.InvokeServerStream, one step of its loop at a time       *)
(***************************************************************************)
\* the least index i >= from with s[i], s[i+1] = CR, LF; 0 when none
IndexCRLF(s, from) ==
    LET S == {i \in from..(Len(s) - 1) : s[i] = CR /\ s[i + 1] = LF}
    IN  IF S = {} THEN 0 ELSE CHOOSE i \in S : \A j \in S : i <= j

\* strings.Split(s, "\r\n") from index from on
RECURSIVE SplitCRLF(_, _)
SplitCRLF(s, from) ==
    LET i == IndexCRLF(s, from)
    IN  IF i = 0 THEN << Tail2(s, from) >>
        ELSE << SubSeq(s, from, i - 1) >> \o SplitCRLF(s, i + 2)

\* the loop body over the lines of a trailer frame
StreamTrailerLine(trailers, line) ==
    LET parts == SplitColon(line)
    IN  IF line = << >> \/ Len(parts) # 2 THEN trailers
        ELSE MapPut(trailers, TrimSpace(ToLower(parts[1])), TrimSpace(parts[2]))

RECURSIVE StreamTrailerLines(_, _, _)
StreamTrailerLines(trailers, lines, i) ==
    IF i > Len(lines) THEN trailers
    ELSE StreamTrailerLines(StreamTrailerLine(trailers, lines[i]), lines, i + 1)

\* case protocol.FrameTrailer: the trailers and the status afterwards
StreamTrailerFrame(ss, payload) ==
    LET t == StreamTrailerLines(ss.trailers, SplitCRLF(payload, 1), 1)
    IN  [ss EXCEPT !.trailers = t,
                   !.status = IF GrpcStatusKey \in DOMAIN t
                              THEN Status(SscanfInt(t[GrpcStatusKey]),
                                          MapGet(t, GrpcMessageKey))
                              ELSE ss.status]

Event(ev, type, payload) == [ev |-> ev, type |-> type, payload |-> payload]

\* case protocol.FrameData: the handler, when there is one, is entered with
\* the payload; the loop goes on when it has returned
StreamDataFrame(ss, payload) ==
    IF ss.handler # "nil"
    THEN [ss EXCEPT !.pc = "handler", !.cur = payload,
                    !.log = Append(ss.log, Event("call", FrameData, payload))]
    ELSE [ss EXCEPT !.messages = Append(ss.messages, payload)]

\* the switch on frame.Type
StreamFrame(ss, frame) ==
    IF frame.Type = FrameData THEN StreamDataFrame(ss, frame.Payload)
    ELSE IF frame.Type = FrameTrailer THEN StreamTrailerFrame(ss, frame.Payload)
    ELSE ss

\* the locals of InvokeServerStream when the loop is entered
StreamInit(client, h, handler) ==
    [pc |-> "read", pos |-> 0, maxMsgSize |-> client.maxMsgSize,
     messages |-> << >>, trailers |-> EmptyMap, status |-> NilStatus,
     handler |-> handler, cur |-> << >>, log |-> << >>,
     resp |-> NilResponse, err |-> "nil", httpStatus |-> h.StatusCode]

\* what InvokeServerStream does before its loop: the call ends there when the
\* request fails or the HTTP status is not 200
StreamBegin(client, h, handler) ==
    LET s == StreamInit(client, h, handler)
        e == HTTPError(h)
    IN  IF h.transport # "ok" THEN [s EXCEPT !.pc = "return", !.err = "request failed"]
        ELSE IF h.StatusCode # 200
        THEN [s EXCEPT !.pc = "return", !.resp = e.resp, !.err = e.err]
        ELSE s

\* the return after the loop, with the default OK status
StreamReturn(ss) ==
    [ss EXCEPT !.pc = "return",
               !.resp = Response(ss.messages, ss.trailers,
                                 IF ss.status.nil THEN Status(0, << >>) ELSE ss.status,
                                 ss.httpStatus)]

\* one iteration of the loop from decoder.DecodeFrame() on; the decoder reads
\* the body of h from where it stopped
StreamRead(ss, h) ==
    LET Decoded(d) ==
            LET read == [ss EXCEPT !.pos = d.r.pos]
            IN  IF d.err = "EOF" THEN StreamReturn(read)
                ELSE IF d.err # "nil"
                THEN [read EXCEPT !.pc = "return", !.err = "failed to decode frame"]
                ELSE StreamFrame([read EXCEPT !.log = Append(ss.log,
                                     Event("frame", d.frame.Type, d.frame.Payload))],
                                 d.frame)
    IN  Decoded(DecodeFrame([Reader(Body(h), h.failAt) EXCEPT !.pos = ss.pos],
                            ss.maxMsgSize))

StreamHandlerReturn_ErrorDeferred(ss, herr) ==
    [ss EXCEPT !.log = Append(ss.log, Event("return", FrameData, ss.cur)),
               !.pc = "read",
               !.err = IF herr # "nil" THEN "handler error" ELSE ss.err,
               !.messages = IF herr # "nil" THEN ss.messages
                            ELSE Append(ss.messages, ss.cur)]

\* the handler returns: nil, and the message is kept and the loop goes on,
\* or an error, which ends the call
StreamHandlerReturn(ss, herr) ==
    LET back == [ss EXCEPT !.log = Append(ss.log, Event("return", FrameData, ss.cur))]
    IN  IF herr # "nil"
        THEN [back EXCEPT !.pc = "return", !.err = "handler error"]
        ELSE [back EXCEPT !.pc = "read", !.messages = Append(ss.messages, ss.cur)]

(***************************************************************************)
(* callers: runInvoke and the reflection client's check of a response      *)
(***************************************************************************)
\* runInvoke after the call: "request failed" (returned error), "grpc error"
\* (printGRPCError and exit 1) or "ok"
RunInvokeResult_NilStatusFails(res) ==
    IF res.err # "nil" THEN "request failed"
    ELSE IF res.resp.Status.nil \/ res.resp.Status.Code # 0 THEN "grpc error"
    ELSE "ok"

RunInvokeResult(res) ==
    IF res.err # "nil" THEN "request failed"
    ELSE IF ~res.resp.Status.nil /\ res.resp.Status.Code # 0 THEN "grpc error"
    ELSE "ok"

\* ReflectionClient.ListServices / FileContainingSymbolWithDeps on the
\* response of an Invoke that returned no error: "reflection error" (status),
\* "no response" (no message) or "parse" (the first message is parsed)
ReflectionResult(resp) ==
    IF ~resp.Status.nil /\ resp.Status.Code # 0 THEN "reflection error"
    ELSE IF Len(resp.Messages) = 0 THEN "no response"
    ELSE "parse"

(***************************************************************************)
(* descriptor: ParseServiceMethod                                          *)
(***************************************************************************)
SLASH == 47

\* strings.Split(s, "/"): the texts between the separators, one more than
\* there are separators
RECURSIVE SplitSlash(_)
SplitSlash(s) ==
    LET c == IndexByte(s, 1, SLASH)
    IN  IF c = 0 THEN << s >>
        ELSE << SubSeq(s, 1, c - 1) >> \o SplitSlash(Tail2(s, c + 1))

\* a mutant: everything up to the last separator is the service
ParseServiceMethod_LastSlash(fullMethod) ==
    LET parts == SplitSlash(fullMethod)
        n == Len(parts)
    IN  IF n < 2
        THEN [service |-> << >>, method |-> << >>, err |-> "invalid method format"]
        ELSE [service |-> SubSeq(fullMethod, 1, Len(fullMethod) - Len(parts[n]) - 1),
              method |-> parts[n], err |-> "nil"]

\* ParseServiceMethod(fullMethod): [service, method, err]
ParseServiceMethod(fullMethod) ==
    LET parts == SplitSlash(fullMethod)
    IN  IF Len(parts) # 2
        THEN [service |-> << >>, method |-> << >>, err |-> "invalid method format"]
        ELSE [service |-> parts[1], method |-> parts[2], err |-> "nil"]

(***************************************************************************)
(* client: the extractors of the reflection responses                      *)
(*                                                                         *)
(* A buffer is a sequence of bytes; Go's index i is index i + 1 here.  An  *)
(* extractor ends "ok", or in a run-time panic (an index or a slice bound  *)
(* out of range: "panic"), or never (its loop comes back to a position it  *)
(* has been at: "hang").                                                   *)
(***************************************************************************)
\* A Go int (64 bits) as far as the extractors tell values apart: an exact
\* number n (c = "n", |v| <= Pow28), a positive number above every buffer
\* length (c = "+"), the number 2^63 - v (c = "max": adding v or more to it
\* wraps around), or a negative number below -Pow28 (c = "-").
Pow28 == 128 * 128 * 128 * 128

GoInt(c, v) == [c |-> c, v |-> v]

\* the value of the 7-bit groups g[from..to] of a varint, lowest first
RECURSIVE Groups(_, _, _)
Groups(g, from, to) ==
    IF from > to \/ from > Len(g) THEN 0
    ELSE (g[from] % 128) + 128 * Groups(g, from + 1, to)

\* the number of bytes readVarint consumes: up to the first byte below 0x80,
\* 10 at most, and no more than there are
RECURSIVE VarintLen(_, _)
VarintLen(data, i) ==
    IF i > Len(data) \/ i > 10 THEN i - 1
    ELSE IF data[i] < 128 THEN i
    ELSE VarintLen(data, i + 1)

\* readVarint(data): value |= int(b & 0x7f) << shift for each byte read; the
\* tenth byte is shifted by 63, so its lowest bit is the sign
readVarint(data) ==
    LET n == VarintLen(data, 1)
        g == SubSeq(data, 1, n)
        l0 == Groups(g, 1, 4)
        l1 == Groups(g, 5, 8)
        l2 == Groups(g, 9, 9)
        neg == n = 10 /\ g[10] % 2 = 1
        ones == l1 = Pow28 - 1 /\ l2 = 127
        value == IF neg
                 THEN (IF ones THEN GoInt("n", l0 - Pow28) ELSE GoInt("-", 0))
                 ELSE IF l1 = 0 /\ l2 = 0 THEN GoInt("n", l0)
                 ELSE IF ones THEN GoInt("max", Pow28 - l0)
                 ELSE GoInt("+", 0)
    IN  [value |-> value, bytesRead |-> n]

\* pos + length for a position pos within reach of a buffer
Sum(pos, length) ==
    CASE length.c = "n" -> GoInt("n", pos + length.v)
      [] length.c = "+" -> length
      [] length.c = "-" -> length
      [] length.c = "max" -> IF pos >= length.v THEN GoInt("-", 0) ELSE GoInt("+", 0)

\* pos+length > len(data)
PastEnd(end, data) == end.c = "+" \/ (end.c = "n" /\ end.v > Len(data))

\* data[pos : end] panics when end is below pos (end is not past the end)
BadSlice(pos, end) == end.c = "-" \/ (end.c = "n" /\ end.v < pos)

\* the position pos = end as the loop condition pos < len(data) and the
\* index data[pos] see it: below 0 the index panics
PosOf(end, data) ==
    CASE end.c = "n" -> end.v
      [] end.c = "-" -> -1
      [] OTHER -> Len(data) + 1

\* for pos < len(data) && data[pos]&0x80 != 0 { pos++ }; pos++
RECURSIVE SkipVarint(_, _)
SkipVarint(data, pos) ==
    IF pos < Len(data) /\ data[pos + 1] >= 128 THEN SkipVarint(data, pos + 1)
    ELSE pos + 1

FieldNum(tag) == tag \div 8

WireType(tag) == tag % 8

\* parseServiceName(data): [out, name]; the loop from position pos on, with
\* fuel positions left to visit
RECURSIVE ServiceNameFrom(_, _, _)
ServiceNameFrom(data, pos, fuel) ==
    IF pos < 0 THEN [out |-> "panic", name |-> << >>]
    ELSE IF pos >= Len(data) THEN [out |-> "ok", name |-> << >>]
    ELSE IF fuel = 0 THEN [out |-> "hang", name |-> << >>]
    ELSE
      LET tag == data[pos + 1]
          p1 == pos + 1
          Length(rv) ==
            LET p2 == p1 + rv.bytesRead
                end == Sum(p2, rv.value)
            IN  IF FieldNum(tag) = 1
                THEN IF ~PastEnd(end, data)
                     THEN IF BadSlice(p2, end) THEN [out |-> "panic", name |-> << >>]
                          ELSE [out |-> "ok", name |-> SubSeq(data, p2 + 1, end.v)]
                     ELSE ServiceNameFrom(data, p2, fuel - 1)
                ELSE ServiceNameFrom(data, PosOf(end, data), fuel - 1)
      IN  IF WireType(tag) = 2
          THEN IF p1 >= Len(data) THEN [out |-> "ok", name |-> << >>]
               ELSE Length(readVarint(Tail2(data, p1 + 1)))
          ELSE IF WireType(tag) = 0
          THEN ServiceNameFrom(data, SkipVarint(data, p1), fuel - 1)
          ELSE ServiceNameFrom(data, p1 + 1, fuel - 1)

parseServiceName(data) == ServiceNameFrom(data, 0, Len(data))

\* parseServiceList(data): [out, services]
RECURSIVE ServiceListFrom(_, _, _, _)
ServiceListFrom(data, pos, services, fuel) ==
    IF pos < 0 THEN [out |-> "panic", services |-> services]
    ELSE IF pos >= Len(data) THEN [out |-> "ok", services |-> services]
    ELSE IF fuel = 0 THEN [out |-> "hang", services |-> services]
    ELSE
      LET tag == data[pos + 1]
          p1 == pos + 1
          Length(rv) ==
            LET p2 == p1 + rv.bytesRead
                end == Sum(p2, rv.value)
                Named(sn) ==
                    IF sn.out # "ok" THEN [out |-> sn.out, services |-> services]
                    ELSE ServiceListFrom(data, end.v,
                             IF sn.name # << >> THEN Append(services, sn.name)
                             ELSE services,
                             fuel - 1)
            IN  IF PastEnd(end, data) THEN [out |-> "ok", services |-> services]
                ELSE IF FieldNum(tag) = 1
                THEN IF BadSlice(p2, end) THEN [out |-> "panic", services |-> services]
                     ELSE Named(parseServiceName(SubSeq(data, p2 + 1, end.v)))
                ELSE ServiceListFrom(data, PosOf(end, data), services, fuel - 1)
      IN  IF WireType(tag) = 2
          THEN IF p1 >= Len(data) THEN [out |-> "ok", services |-> services]
               ELSE Length(readVarint(Tail2(data, p1 + 1)))
          ELSE IF WireType(tag) = 0
          THEN ServiceListFrom(data, SkipVarint(data, p1), services, fuel - 1)
          ELSE ServiceListFrom(data, p1 + 1, services, fuel - 1)

parseServiceList(data) == ServiceListFrom(data, 0, << >>, Len(data))

\* parseListServicesResponse(data): [out, services]; the error it returns is
\* always nil.  A break in a case of its switch leaves the switch, not the
\* loop: after a length that runs past the end the loop goes on behind the
\* length.
RECURSIVE ListServicesResponseFrom(_, _, _, _)
ListServicesResponseFrom(data, pos, services, fuel) ==
    IF pos < 0 THEN [out |-> "panic", services |-> services]
    ELSE IF pos >= Len(data) THEN [out |-> "ok", services |-> services]
    ELSE IF fuel = 0 THEN [out |-> "hang", services |-> services]
    ELSE
      LET tag == data[pos + 1]
          p1 == pos + 1
          Length(rv) ==
            LET p2 == p1 + rv.bytesRead
                end == Sum(p2, rv.value)
                Listed(sl) ==
                    IF sl.out # "ok" THEN [out |-> sl.out, services |-> services]
                    ELSE ListServicesResponseFrom(data, end.v, services \o sl.services,
                                                  fuel - 1)
            IN  IF PastEnd(end, data)
                THEN ListServicesResponseFrom(data, p2, services, fuel - 1)
                ELSE IF FieldNum(tag) = 6
                THEN IF BadSlice(p2, end) THEN [out |-> "panic", services |-> services]
                     ELSE Listed(parseServiceList(SubSeq(data, p2 + 1, end.v)))
                ELSE ListServicesResponseFrom(data, PosOf(end, data), services, fuel - 1)
      IN  IF WireType(tag) = 0
          THEN ListServicesResponseFrom(data, SkipVarint(data, p1), services, fuel - 1)
          ELSE IF WireType(tag) = 2
          THEN IF p1 >= Len(data)
               THEN ListServicesResponseFrom(data, p1, services, fuel - 1)
               ELSE Length(readVarint(Tail2(data, p1 + 1)))
          ELSE ListServicesResponseFrom(data, p1 + 1, services, fuel - 1)

parseListServicesResponse(data) == ListServicesResponseFrom(data, 0, << >>, Len(data))

\* the string parseErrorResponse returns: "<message> (code <code>)", "error
\* code <code>" or ""
NoErrorText == [kind |-> "none", message |-> << >>, code |-> 0]

ErrorText(message, code) ==
    IF message # << >> THEN [kind |-> "message", message |-> message, code |-> code]
    ELSE IF code # 0 THEN [kind |-> "code", message |-> << >>, code |-> code]
    ELSE NoErrorText

\* parseErrorResponse(data): [out, text].  Lengths are single bytes here.
RECURSIVE ErrorResponseFrom(_, _, _, _)
ErrorResponseFrom(data, pos, errorCode, errorMessage) ==
    IF pos >= Len(data) THEN [out |-> "ok", text |-> ErrorText(errorMessage, errorCode)]
    ELSE
      LET tag == data[pos + 1]
          p1 == pos + 1
          length == data[p1 + 1]
          p2 == p1 + 1
      IN  IF WireType(tag) = 0 /\ FieldNum(tag) = 1
          THEN IF p1 >= Len(data) THEN [out |-> "panic", text |-> NoErrorText]
               ELSE ErrorResponseFrom(data, p1 + 1, data[p1 + 1], errorMessage)
          ELSE IF WireType(tag) = 2 /\ FieldNum(tag) = 2
          THEN IF p1 >= Len(data)
               THEN [out |-> "ok", text |-> ErrorText(errorMessage, errorCode)]
               ELSE ErrorResponseFrom(data, p2 + length, errorCode,
                        IF p2 + length <= Len(data)
                        THEN SubSeq(data, p2 + 1, p2 + length) ELSE errorMessage)
          ELSE IF WireType(tag) = 2
          THEN IF p1 >= Len(data)
               THEN [out |-> "ok", text |-> ErrorText(errorMessage, errorCode)]
               ELSE ErrorResponseFrom(data, p2 + length, errorCode, errorMessage)
          ELSE ErrorResponseFrom(data, p1 + 1, errorCode, errorMessage)

parseErrorResponse(data) == ErrorResponseFrom(data, 0, 0, << >>)

\* parseReflectionError(data) on a buffer whose capacity is its length (a
\* frame payload is made by make([]byte, length)): [out, text].  The slice
\* data[pos : pos+length] is taken without a look at len(data).
RECURSIVE ReflectionErrorFrom(_, _)
ReflectionErrorFrom(data, pos) ==
    IF pos >= Len(data) THEN [out |-> "ok", text |-> NoErrorText]
    ELSE
      LET tag == data[pos + 1]
          p1 == pos + 1
          length == data[p1 + 1]
          p2 == p1 + 1
      IN  IF WireType(tag) = 2
          THEN IF p1 >= Len(data) THEN [out |-> "ok", text |-> NoErrorText]
               ELSE IF FieldNum(tag) = 7
               THEN IF p2 + length > Len(data) THEN [out |-> "panic", text |-> NoErrorText]
                    ELSE parseErrorResponse(SubSeq(data, p2 + 1, p2 + length))
               ELSE ReflectionErrorFrom(data, p2 + length)
          ELSE IF WireType(tag) = 0
          THEN ReflectionErrorFrom(data, SkipVarint(data, p1))
          ELSE ReflectionErrorFrom(data, p1 + 1)

parseReflectionError(data) == ReflectionErrorFrom(data, 0)

\* proto.Unmarshal(fdpBytes, fdp) as far as the wire format goes: the bytes
\* must be whole fields (a tag with a field number above 0, then a varint,
\* 8 bytes, a length and that many bytes, or 4 bytes); TRUE when they are.
\* The descriptor is then known by its bytes.
RECURSIVE WireFormatOK(_, _)
WireFormatOK(data, pos) ==
    IF pos >= Len(data) THEN TRUE
    ELSE
      LET Tag(tv) ==
            LET p1 == pos + tv.bytesRead
                tag == tv.value.v
                Value(rv) ==
                    LET p2 == p1 + rv.bytesRead
                        valDone == rv.bytesRead >= 1 /\ data[p2] < 128
                    IN  CASE WireType(tag) = 0 -> valDone /\ WireFormatOK(data, p2)
                          [] WireType(tag) = 2 ->
                                /\ valDone /\ rv.value.c = "n" /\ rv.value.v >= 0
                                /\ p2 + rv.value.v <= Len(data)
                                /\ WireFormatOK(data, p2 + rv.value.v)
            IN  /\ data[p1] < 128 /\ tv.value.c = "n" /\ tag >= 8
                /\ CASE WireType(tag) \in {0, 2} -> Value(readVarint(Tail2(data, p1 + 1)))
                     [] WireType(tag) = 1 ->
                           p1 + 8 <= Len(data) /\ WireFormatOK(data, p1 + 8)
                     [] WireType(tag) = 5 ->
                           p1 + 4 <= Len(data) /\ WireFormatOK(data, p1 + 4)
                     [] OTHER -> FALSE
      IN  Tag(readVarint(Tail2(data, pos + 1)))

Unmarshal(fdpBytes) == IF WireFormatOK(fdpBytes, 0) THEN "nil" ELSE "proto: cannot parse"

\* the fields of a well-formed protobuf message, in order, as the wire
\* format defines them: [num, wire, payload] with the payload of a
\* length-delimited field; no fields for bytes that are not a message
RECURSIVE FieldsFrom(_, _)
FieldsFrom(data, pos) ==
    IF pos >= Len(data) THEN << >>
    ELSE
      LET Tag(tv) ==
            LET p1 == pos + tv.bytesRead
                tag == tv.value.v
                Field(payload) == [num |-> tag \div 8, wire |-> tag % 8, payload |-> payload]
                Value(rv) ==
                    LET p2 == p1 + rv.bytesRead
                    IN  IF tag % 8 = 2
                        THEN << Field(SubSeq(data, p2 + 1, p2 + rv.value.v)) >>
                             \o FieldsFrom(data, p2 + rv.value.v)
                        ELSE << Field(<< >>) >> \o FieldsFrom(data, p2)
            IN  IF tag % 8 \in {0, 2} THEN Value(readVarint(Tail2(data, p1 + 1)))
                ELSE << Field(<< >>) >>
                     \o FieldsFrom(data, p1 + (IF tag % 8 = 1 THEN 8 ELSE 4))
      IN  Tag(readVarint(Tail2(data, pos + 1)))

IsMessage(data) == WireFormatOK(data, 0)

Fields(data) == IF IsMessage(data) THEN FieldsFrom(data, 0) ELSE << >>

\* the payloads of the length-delimited fields num of a message, in order
PayloadsAt(data, num) ==
    LET F == SelectSeq(Fields(data), LAMBDA f : f.num = num /\ f.wire = 2)
    IN  [i \in 1..Len(F) |-> F[i].payload]

\* parseAllFileDescriptorProtos(data): [out, fds, err]
RECURSIVE FileDescriptorProtosFrom(_, _, _, _)
FileDescriptorProtosFrom(data, pos, fds, fuel) ==
    LET end_ == IF fds = << >>
                THEN [out |-> "ok", fds |-> << >>, err |-> "no file descriptor protos found"]
                ELSE [out |-> "ok", fds |-> fds, err |-> "nil"]
    IN
    IF pos < 0 THEN [out |-> "panic", fds |-> << >>, err |-> "nil"]
    ELSE IF pos >= Len(data) THEN end_
    ELSE IF fuel = 0 THEN [out |-> "hang", fds |-> << >>, err |-> "nil"]
    ELSE
      LET tag == data[pos + 1]
          p1 == pos + 1
          Length(rv) ==
            LET p2 == p1 + rv.bytesRead
                end == Sum(p2, rv.value)
                fdpBytes == SubSeq(data, p2 + 1, end.v)
                Parsed(err) ==
                    IF err # "nil" THEN [out |-> "ok", fds |-> << >>, err |-> err]
                    ELSE FileDescriptorProtosFrom(data, end.v, Append(fds, fdpBytes),
                                                  fuel - 1)
            IN  IF PastEnd(end, data) THEN end_
                ELSE IF FieldNum(tag) = 1
                THEN IF BadSlice(p2, end)
                     THEN [out |-> "panic", fds |-> << >>, err |-> "nil"]
                     ELSE Parsed(Unmarshal(fdpBytes))
                ELSE FileDescriptorProtosFrom(data, PosOf(end, data), fds, fuel - 1)
      IN  IF WireType(tag) = 2
          THEN IF p1 >= Len(data) THEN end_
               ELSE Length(readVarint(Tail2(data, p1 + 1)))
          ELSE IF WireType(tag) = 0
          THEN FileDescriptorProtosFrom(data, SkipVarint(data, p1), fds, fuel - 1)
          ELSE FileDescriptorProtosFrom(data, p1 + 1, fds, fuel - 1)

parseAllFileDescriptorProtos(data) == FileDescriptorProtosFrom(data, 0, << >>, Len(data))

\* parseAllFileDescriptors(data): [out, fds, err]; the first field 4 decides
RECURSIVE FileDescriptorsFrom(_, _, _)
FileDescriptorsFrom(data, pos, fuel) ==
    LET none == [out |-> "ok", fds |-> << >>, err |-> "no file descriptor in response"]
    IN
    IF pos < 0 THEN [out |-> "panic", fds |-> << >>, err |-> "nil"]
    ELSE IF pos >= Len(data) THEN none
    ELSE IF fuel = 0 THEN [out |-> "hang", fds |-> << >>, err |-> "nil"]
    ELSE
      LET tag == data[pos + 1]
          p1 == pos + 1
          Length(rv) ==
            LET p2 == p1 + rv.bytesRead
                end == Sum(p2, rv.value)
            IN  IF PastEnd(end, data) THEN none
                ELSE IF FieldNum(tag) = 4
                THEN IF BadSlice(p2, end)
                     THEN [out |-> "panic", fds |-> << >>, err |-> "nil"]
                     ELSE parseAllFileDescriptorProtos(SubSeq(data, p2 + 1, end.v))
                ELSE FileDescriptorsFrom(data, PosOf(end, data), fuel - 1)
      IN  IF WireType(tag) = 2
          THEN IF p1 >= Len(data) THEN none
               ELSE Length(readVarint(Tail2(data, p1 + 1)))
          ELSE IF WireType(tag) = 0
          THEN FileDescriptorsFrom(data, SkipVarint(data, p1), fuel - 1)
          ELSE FileDescriptorsFrom(data, p1 + 1, fuel - 1)

parseAllFileDescriptors(data) == FileDescriptorsFrom(data, 0, Len(data))

(***************************************************************************)
(* reflection client: ListServices and FileContainingSymbolWithDeps        *)
(***************************************************************************)
\* "grpc.reflection.v1alpha.ServerReflection"
reflectionServiceName ==
    << 103, 114, 112, 99, 46, 114, 101, 102, 108, 101, 99, 116, 105, 111, 110, 46, 118,
    49, 97, 108, 112, 104, 97, 46, 83, 101, 114, 118, 101, 114, 82, 101, 102, 108, 101,
    99, 116, 105, 111, 110 >>

\* "grpc.reflection.v1.ServerReflection"
reflectionV1ServiceName ==
    << 103, 114, 112, 99, 46, 114, 101, 102, 108, 101, 99, 116, 105, 111, 110, 46, 118,
    49, 46, 83, 101, 114, 118, 101, 114, 82, 101, 102, 108, 101, 99, 116, 105, 111, 110
    >>

\* encodeListServicesRequest(): field 7, length-delimited, empty
encodeListServicesRequest == << 58, 0 >>

\* encodeFileContainingSymbolRequest(symbol): byte(len(symbolBytes)) is the
\* length reduced modulo 256
encodeFileContainingSymbolRequest(symbol) == << 34, Len(symbol) % 256 >> \o symbol

\* a reflection operation up to the return of its first Invoke, on the
\* v1alpha service; h1 is what the server makes of the request.  calls lists
\* the invocations made so far
ReflectionBegin(client, op, symbol, reqBytes, h1) ==
    LET Returned(first) ==
            [pc |-> IF first.err = "nil" THEN "check" ELSE "retry",
             op |-> op, symbol |-> symbol, reqBytes |-> reqBytes,
             calls |-> << [Service |-> reflectionServiceName, Message |-> reqBytes,
                           err |-> first.err] >>,
             resp |-> first.resp, err |-> "nil", cause |-> "nil"]
    IN  Returned(Invoke(client, h1))

ReflectionRetry_FirstError(client, rc, h2) ==
    LET Returned(second) ==
            [rc EXCEPT !.pc = IF second.err = "nil" THEN "check" ELSE "return",
                       !.calls = Append(rc.calls,
                                        [Service |-> reflectionV1ServiceName,
                                         Message |-> rc.reqBytes, err |-> second.err]),
                       !.resp = second.resp,
                       !.err = IF second.err = "nil" THEN "nil"
                               ELSE "reflection request failed",
                       !.cause = IF second.err = "nil" THEN "nil" ELSE rc.calls[1].err]
    IN  Returned(Invoke(client, h2))

\* the first Invoke returned an error: Invoke on the v1 service with the same
\* message, answered by h2; when it fails too the operation returns its
\* error (cause), wrapped
ReflectionRetry(client, rc, h2) ==
    LET Returned(second) ==
            [rc EXCEPT !.pc = IF second.err = "nil" THEN "check" ELSE "return",
                       !.calls = Append(rc.calls,
                                        [Service |-> reflectionV1ServiceName,
                                         Message |-> rc.reqBytes, err |-> second.err]),
                       !.resp = second.resp,
                       !.err = IF second.err = "nil" THEN "nil"
                               ELSE "reflection request failed",
                       !.cause = second.err]
    IN  Returned(Invoke(client, h2))

\* a < b for Go strings: byte by byte, a proper prefix first
RECURSIVE Less(_, _)
Less(a, b) ==
    IF b = << >> THEN FALSE
    ELSE IF a = << >> THEN TRUE
    ELSE IF Head(a) # Head(b) THEN Head(a) < Head(b)
    ELSE Less(Tail(a), Tail(b))

\* sort.Strings(services)
RECURSIVE SortStrings(_)
SortStrings(s) ==
    IF s = << >> THEN << >>
    ELSE LET rest == SortStrings(Tail(s))
             k == Cardinality({i \in 1..Len(rest) : ~Less(Head(s), rest[i])})
         IN  SubSeq(rest, 1, k) \o << Head(s) >> \o SubSeq(rest, k + 1, Len(rest))

\* what a reflection operation returns: the values (service names or file
\* descriptors) and the error, with the text of an error_response (text) or
\* the wrapped error (cause); out is "panic" or "hang" when the operation
\* does not return
ReflectionReturned(rc, out, values, err, text) ==
    [out |-> out, values |-> values, err |-> err, text |-> text, cause |-> rc.cause]

\* ReflectionClient.ListServices(ctx) from the check of the response on
ListServices(rc) ==
    LET Checked(refl) ==
            IF refl.out # "ok" THEN ReflectionReturned(rc, refl.out, << >>, "nil", NoErrorText)
            ELSE ReflectionReturned(rc, "ok", << >>, "reflection error: text", refl.text)
        Parsed(parsed) ==
            IF parsed.out # "ok"
            THEN ReflectionReturned(rc, parsed.out, << >>, "nil", NoErrorText)
            ELSE LET checked == Checked(parseReflectionError(rc.resp.Messages[1]))
                 IN  IF checked.out = "ok" /\ checked.text.kind = "none"
                     THEN ReflectionReturned(rc, "ok", SortStrings(parsed.services), "nil",
                                             NoErrorText)
                     ELSE checked
    IN  IF rc.err # "nil" THEN ReflectionReturned(rc, "ok", << >>, rc.err, NoErrorText)
        ELSE IF ReflectionResult(rc.resp) # "parse"
        THEN ReflectionReturned(rc, "ok", << >>, ReflectionResult(rc.resp), NoErrorText)
        ELSE Parsed(parseListServicesResponse(rc.resp.Messages[1]))

\* ReflectionClient.FileContainingSymbolWithDeps(ctx, symbol) from the check
\* of the response on
FileContainingSymbolWithDeps(rc) ==
    LET Parsed(parsed) == ReflectionReturned(rc, parsed.out, parsed.fds, parsed.err, NoErrorText)
    IN  IF rc.err # "nil" THEN ReflectionReturned(rc, "ok", << >>, rc.err, NoErrorText)
        ELSE IF ReflectionResult(rc.resp) # "parse"
        THEN ReflectionReturned(rc, "ok", << >>, ReflectionResult(rc.resp), NoErrorText)
        ELSE Parsed(parseAllFileDescriptors(rc.resp.Messages[1]))

(***************************************************************************)
(* The inputs: what the server and the transport deliver                   *)
(***************************************************************************)
\* bounds of the model
MaxPayloadLen == 2
MaxDataFrames == 2
MaxTrailerLines == 2
ConfiguredLimit == 2

ByteChoices == {0, 1, 128, 255}

SeqsUpTo(S, n) == UNION {[1..k -> S] : k \in 0..n}

\* message payloads handed to the encoder: every short one, and two long
\* ones whose lengths (0x0102 and 0x010203) fill more than one length byte
Payloads == SeqsUpTo(ByteChoices, MaxPayloadLen) \cup {Repeat(171, 258), Repeat(171, 66051)}

\* "grpc-status: 0"
LineStatus0 == << 103, 114, 112, 99, 45, 115, 116, 97, 116, 117, 115, 58, 32, 48 >>
\* "grpc-status: 3"
LineStatus3 == << 103, 114, 112, 99, 45, 115, 116, 97, 116, 117, 115, 58, 32, 51 >>
\* "Grpc-Status:5"
LineStatusUpper == << 71, 114, 112, 99, 45, 83, 116, 97, 116, 117, 115, 58, 53 >>
\* "grpc-message: m"
LineMessage == << 103, 114, 112, 99, 45, 109, 101, 115, 115, 97, 103, 101, 58, 32, 109 >>
\* "x: 1"
LineX1 == << 120, 58, 32, 49 >>
\* "X : 2"
LineXUpper == << 88, 32, 58, 32, 50 >>
\* "novalue"
LineNoColon == << 110, 111, 118, 97, 108, 117, 101 >>
\* "k:a:b"
LineColons == << 107, 58, 97, 58, 98 >>
\* "grpc-status: zz"
LineStatusBad == << 103, 114, 112, 99, 45, 115, 116, 97, 116, 117, 115, 58, 32, 122, 122 >>

Lines == {LineStatus0, LineStatus3, LineStatusUpper, LineMessage, LineX1, LineXUpper, LineNoColon, LineColons, LineStatusBad, << >>}

\* an overlong line: "k:" and then MaxScanTokenSize bytes "x"
LineLong == [text |-> << 107, COLON >>, pad |-> MaxScanTokenSize]

\* data payloads of replies: one within every configured limit, one above
\* the small configured limit
DataPayloads == {<< 1 >>, [i \in 1..(ConfiguredLimit + 1) |-> i + 1]}

DataRuns == {[i \in 1..Len(ps) |-> DataF(ps[i])] : ps \in SeqsUpTo(DataPayloads, MaxDataFrames)}

\* N data frames and one trailer frame of at most one line
StreamReplies ==
    {Reply("frames", ds \o << TrailerF(ls) >>, << >>, -1, -1) :
        ds \in DataRuns, ls \in SeqsUpTo(Lines, 1)}

\* one data frame at most and one trailer frame of two lines or more
TrailerReplies ==
    {Reply("frames", << TrailerF(ls) >>, << >>, -1, -1) :
        ls \in SeqsUpTo(Lines, MaxTrailerLines) \ SeqsUpTo(Lines, 1)}

\* two trailer frames of one line each
TwoTrailerReplies ==
    {Reply("frames", << TrailerF(<< a >>), TrailerF(<< b >>) >>, << >>, -1, -1) :
        a, b \in Lines}

\* a trailer frame with a line longer than the scanner's buffer
LongLineReplies ==
    {Reply("frames", << DataF(<< 1 >>), FrameSpec(128, << >>, ls, TRUE) >>, << >>, -1, -1) :
        ls \in {<< LineLong, Line(LineStatus3) >>, << Line(LineStatus3), LineLong >>}}

\* data frames and no trailer frame
NoTrailerReplies == {Reply("frames", ds, << >>, -1, -1) : ds \in DataRuns}

\* frames with reserved bits set in the flag byte
Flags == {0, 1, 127, 128, 129, 255}

FlagReplies ==
    {Reply("frames", << x >> \o t, << >>, -1, -1) :
        x \in {FrameSpec(f, << 7 >>, << >>, FALSE) : f \in Flags}
              \cup {TextF(f, << LineStatus3 >>) : f \in Flags},
        t \in {<< >>, << TrailerF(<< LineX1 >>) >>}}

\* bodies that end early, and reads that the transport aborts
CutBases == {<< DataF(<< 1, 2 >>), DataF(<< >>), TrailerF(<< LineX1 >>) >>}

CutReplies ==
    {Reply("cut", fs, << >>, k, -1) :
        fs \in CutBases, k \in 0..(Len(Wire(CHOOSE f \in CutBases : TRUE)) - 1)}

BrokenReplies ==
    {Reply("broken", fs, << >>, -1, k) :
        fs \in CutBases, k \in 0..Len(Wire(CHOOSE f \in CutBases : TRUE))}

\* headers that declare large lengths: 65536, 16 MiB, 16 MiB + 1, 2^31 and
\* 2^32 - 1, each with two bytes of payload behind it
RawReplies ==
    {Reply("raw", << >>, << 0 >> \o len \o << 9, 9 >>, -1, -1) :
        len \in {<< 0, 1, 0, 0 >>, << 1, 0, 0, 0 >>, << 1, 0, 0, 1 >>,
                 << 128, 0, 0, 0 >>, << 255, 255, 255, 255 >>}}

\* replies with the HTTP status 404 or 503: the Grpc-Status header absent,
\* "0", "3" or "x", the Grpc-Message header absent or "m"; the body empty, a
\* data frame and a trailer frame with "Grpc-Status:5", or that body cut
\* inside the trailer frame's header; the read of the body whole, or broken
\* at once or after 3 bytes
HTTPErrorBodies ==
    {<< << >>, -1 >>,
     << << DataF(<< 1, 2 >>), TrailerF(<< LineStatusUpper >>) >>, -1 >>,
     << << DataF(<< 1, 2 >>), TrailerF(<< LineStatusUpper >>) >>, 9 >>}

HTTPErrorReplies ==
    {[Reply("http", b[1], << >>, b[2], failAt) EXCEPT
            !.StatusCode = code, !.GrpcStatus = status, !.GrpcMessage = message] :
        b \in HTTPErrorBodies, failAt \in {-1, 0, 3}, code \in {404, 503},
        status \in {<< >>, << 48 >>, << 51 >>, << 120 >>}, message \in {<< >>, << 109 >>}}

\* a failed request, and replies with an HTTP status other than 200
HTTPReplies ==
    {[Reply("http", << >>, << >>, -1, -1) EXCEPT !.transport = "fail"],
     [Reply("http", << >>, << >>, -1, -1) EXCEPT !.StatusCode = 404],
     [Reply("http", << >>, << >>, -1, -1) EXCEPT !.StatusCode = 500, !.GrpcStatus = << 51 >>]}
    \cup HTTPErrorReplies

\* a length-delimited field on the wire: the tag, the length, the payload
LenField(num, payload) == << num * 8 + 2, Len(payload) >> \o payload

RECURSIVE Flatten(_)
Flatten(seqs) == IF seqs = << >> THEN << >> ELSE Head(seqs) \o Flatten(Tail(seqs))

\* ServerReflectionResponse messages: list_services_response (field 6) with a
\* ServiceResponse (field 1) per name, file_descriptor_response (field 4)
\* with its file_descriptor_proto entries (field 1), error_response (field 7)
\* with error_code (field 1) and error_message (field 2)
ListServicesResponse(names) ==
    LenField(6, Flatten([i \in 1..Len(names) |-> LenField(1, LenField(1, names[i]))]))

FileDescriptorResponse(fdps) ==
    LenField(4, Flatten([i \in 1..Len(fdps) |-> LenField(1, fdps[i])]))

\* error_code 5, error_message "not found"
ErrorNotFound ==
    LenField(7, << 8, 5 >> \o LenField(2, << 110, 111, 116, 32, 102, 111, 117, 110, 100 >>))

\* two serialized FileDescriptorProto: name "a", and name "b" with dependency "a"
FileA == LenField(1, << 97 >>)
FileB == LenField(1, << 98 >>) \o LenField(3, << 97 >>)

\* name "c", package "a", dependency "a", and the service "b" with the
\* method "m": it declares "a.b" and "a.b.m"
FileC ==
    LenField(1, << 99 >>) \o LenField(2, << 97 >>) \o LenField(3, << 97 >>)
    \o LenField(6, LenField(1, << 98 >>) \o LenField(2, LenField(1, << 109 >>)))

ReflectionMessages ==
    {ListServicesResponse(<< << 98 >>, << 97 >> >>),
     ListServicesResponse(<< reflectionServiceName, << 97 >> >>),
     ListServicesResponse(<< >>),
     ErrorNotFound,
     ListServicesResponse(<< << 97 >> >>) \o ErrorNotFound,
     ErrorNotFound \o ListServicesResponse(<< << 97 >> >>),
     FileDescriptorResponse(<< FileA >>),
     FileDescriptorResponse(<< FileB, FileA >>),
     FileDescriptorResponse(<< FileC, FileA >>),
     FileDescriptorResponse(<< FileC >>),
     FileDescriptorResponse(<< >>),
     FileDescriptorResponse(<< FileA >>) \o ErrorNotFound,
     ErrorNotFound \o FileDescriptorResponse(<< FileA >>),
     LenField(7, << >>),
     << 58, 5 >>,
     << >>}

\* the answers of a reflection service: one message, then the trailers
ReflectionReplies ==
    {Reply("frames", << DataF(m), TrailerF(<< LineStatus0 >>) >>, << >>, -1, -1) :
        m \in ReflectionMessages}

\* what the v1 service answers when it is asked
RetryReplies ==
    {[Reply("http", << >>, << >>, -1, -1) EXCEPT !.transport = "fail"],
     Reply("cut", << DataF(<< 1, 2 >>) >>, << >>, 3, -1),
     Reply("frames", << DataF(ListServicesResponse(<< << 98 >>, << 97 >> >>)) >>, << >>, -1, -1),
     Reply("frames", << DataF(FileDescriptorResponse(<< FileA >>)) >>, << >>, -1, -1),
     Reply("frames", << TrailerF(<< LineStatus3 >>) >>, << >>, -1, -1)}

\* the symbols asked for
Symbols == {<< 97 >>, << 97, 46, 98 >>}

\* the buffers handed to the extractors: every short one over tags, lengths
\* and continuation bytes, the reflection messages, and buffers with a
\* length of ten bytes that wraps around the 64-bit int (-1, -11, -2^63) or
\* is 2^63 - 1
MaxBufferLen == 3

BufferBytes == {0, 1, 8, 10, 18, 34, 50, 58, 255}

LongLengths ==
    {Repeat(255, 9) \o << 1 >>, << 245 >> \o Repeat(255, 8) \o << 1 >>,
     Repeat(128, 9) \o << 1 >>, Repeat(255, 8) \o << 127 >>}

\* fields 1, 2 and 4 with a length varint that does not end: the buffer ends
\* after one byte with the continuation bit set, or ten such bytes (the
\* lowest bits say 2) are followed by the two bytes 0a 00
UnendedLengths ==
    {<< t, 128 >> : t \in {10, 18, 34}}
    \cup {<< t, 130 >> \o Repeat(128, 9) \o << 10, 0 >> : t \in {10, 18, 34}}

\* well-formed messages with fields the extractors do not look for, the
\* service entry being 0a 03 0a 01 61 (name "a"): a fixed64 field 1 whose 8
\* bytes are 00 32 05 and that entry; a field 16 (tag 82 01) with the one
\* payload byte 0a, then field 6 with that entry; a fixed32 field 1 (four
\* bytes 0) and a varint field 2, then field 6 with that entry; a fixed32
\* field 1, then field 4 with the descriptor 08 01
OtherFieldBuffers ==
    {<< 9, 0, 50, 5, 10, 3, 10, 1, 97 >>,
     << 130, 1, 1, 10, 50, 5, 10, 3, 10, 1, 97 >>,
     << 13, 0, 0, 0, 0, 16, 1, 50, 5, 10, 3, 10, 1, 97 >>,
     << 13, 0, 0, 0, 0, 34, 4, 10, 2, 8, 1 >>}

Buffers ==
    SeqsUpTo(BufferBytes, MaxBufferLen) \cup ReflectionMessages
    \cup {<< t >> \o l \o << 10, 0 >> : t \in {10, 18, 34, 50, 58}, l \in LongLengths}
    \cup {<< 9, 0, 34, 4, 10, 2, 8, 1, 0 >>}
    \cup UnendedLengths \cup OtherFieldBuffers

\* every reply of the model
Replies ==
    StreamReplies \cup TrailerReplies \cup TwoTrailerReplies \cup LongLineReplies
    \cup NoTrailerReplies \cup FlagReplies \cup CutReplies \cup BrokenReplies
    \cup RawReplies \cup HTTPReplies \cup ReflectionReplies

\* ---------------------------------------------------------------------
\* FileSource: the descriptors of proto files. A file descriptor is
\* [package, services], a service [name, methods], names are byte strings.
\* the full name of a service is "package.Name"
FullName(package, name) == IF package = << >> THEN name ELSE package \o << 46 >> \o name

\* the service descriptors of a file, each known by its full name and methods
ServicesOf(fd) ==
    [i \in 1..Len(fd.services) |->
        [fullName |-> FullName(fd.package, fd.services[i].name),
         name |-> fd.services[i].name,
         methods |-> fd.services[i].methods]]

\* protodesc.NewFiles(set): the registry of the files, or an error when two
\* declarations have the same full name
NewFiles(descriptors) ==
    LET all == Flatten([i \in 1..Len(descriptors) |-> ServicesOf(descriptors[i])])
    IN  IF \E i, j \in 1..Len(all) : i < j /\ all[i].fullName = all[j].fullName
        THEN [files |-> << >>, err |-> "name conflict"]
        ELSE [files |-> descriptors, err |-> "nil"]

\* the index NewFileSource builds: the services of the files seen so far
\* by the name they are indexed under; a later entry replaces an earlier one
RECURSIVE IndexServices_ShortName(_, _)
IndexServices_ShortName(svcs, services) ==
    IF svcs = << >> THEN services
    ELSE IndexServices_ShortName(Tail(svcs),
            [n \in DOMAIN services \cup {Head(svcs).name} |->
                IF n = Head(svcs).name THEN Head(svcs) ELSE services[n]])

RECURSIVE IndexServices(_, _)
IndexServices(svcs, services) ==
    IF svcs = << >> THEN services
    ELSE IndexServices(Tail(svcs),
            [n \in DOMAIN services \cup {Head(svcs).fullName} |->
                IF n = Head(svcs).fullName THEN Head(svcs) ELSE services[n]])


NoServices == [n \in {} |-> << >>]

NewFileSource(descriptors) ==
    LET Built(reg) ==
          IF reg.err # "nil"
          THEN [state |-> "nil", err |-> "failed to create file registry"]
          ELSE [state |-> "built", err |-> "nil", files |-> reg.files,
                services |-> IndexServices(
                    Flatten([i \in 1..Len(reg.files) |-> ServicesOf(reg.files[i])]),
                    NoServices)]
    IN  Built(NewFiles(descriptors))

\* FindService(name): [svc, err]
FindService(fileSource, name) ==
    IF name \notin DOMAIN fileSource.services
    THEN [found |-> FALSE, err |-> "service not found"]
    ELSE [found |-> TRUE, svc |-> fileSource.services[name], err |-> "nil"]

\* svc.Methods().ByName(method): the index of the method in the service, 0 for nil
ByName(methods, method) ==
    IF \E i \in 1..Len(methods) : methods[i] = method
    THEN CHOOSE i \in 1..Len(methods) :
            methods[i] = method /\ \A j \in 1..(i - 1) : methods[j] # method
    ELSE 0

\* FindMethod(service, method): [md, err]; a method descriptor is known by
\* its service's full name and its own name
FindMethod(fileSource, service, method) ==
    LET Found(r) ==
          IF r.err # "nil" THEN [found |-> FALSE, err |-> r.err]
          ELSE IF ByName(r.svc.methods, method) = 0
          THEN [found |-> FALSE, err |-> "method not found"]
          ELSE [found |-> TRUE, err |-> "nil",
                md |-> [parent |-> r.svc.fullName,
                        name |-> r.svc.methods[ByName(r.svc.methods, method)]]]
    IN  Found(FindService(fileSource, service))

(***************************************************************************)
(* ReflectionSource: lookups answered through the reflection client        *)
(***************************************************************************)
\* the value of a singular field given its occurrences: the last one, << >>
\* when there is none
LastOf(payloads) == IF payloads = << >> THEN << >> ELSE payloads[Len(payloads)]

\* a serialized FileDescriptorProto as far as a registry reads it here: name
\* (field 1), package (2), dependency (3) and service (6), a service with its
\* name (1) and the names (1) of its method entries (2)
FileDescriptorProto(fdp) ==
    LET MethodNames(methods) ==
            [j \in 1..Len(methods) |-> LastOf(PayloadsAt(methods[j], 1))]
        ServiceProto(svc) ==
            [name |-> LastOf(PayloadsAt(svc, 1)), methods |-> MethodNames(PayloadsAt(svc, 2))]
        ServiceProtos(svcs) == [i \in 1..Len(svcs) |-> ServiceProto(svcs[i])]
    IN  [name |-> LastOf(PayloadsAt(fdp, 1)),
         package |-> LastOf(PayloadsAt(fdp, 2)),
         dependency |-> PayloadsAt(fdp, 3),
         services |-> ServiceProtos(PayloadsAt(fdp, 6))]

\* protodesc.NewFiles(&descriptorpb.FileDescriptorSet{File: fds}) on
\* descriptors of a reflection response: an error when a file appears twice
\* or imports a file that is not in the set, else the registry of NewFiles
ReflectedFiles(fds) ==
    LET Linked(files) ==
          IF \E i, j \in 1..Len(files) : i < j /\ files[i].name = files[j].name
          THEN [files |-> << >>, err |-> "file appears multiple times"]
          ELSE IF \E i \in 1..Len(files) :
                     \E d \in 1..Len(files[i].dependency) :
                        \A j \in 1..Len(files) : files[j].name # files[i].dependency[d]
          THEN [files |-> << >>, err |-> "could not resolve import"]
          ELSE NewFiles(files)
    IN  Linked([i \in 1..Len(fds) |-> FileDescriptorProto(fds[i])])

\* the descriptors a registry holds: its services and their methods
Declarations(files) ==
    LET Of(svcs) ==
          [i \in 1..Len(svcs) |->
              [kind |-> "service", fullName |-> svcs[i].fullName,
               methods |-> svcs[i].methods]]
          \o Flatten([i \in 1..Len(svcs) |->
                [j \in 1..Len(svcs[i].methods) |->
                    [kind |-> "method",
                     fullName |-> FullName(svcs[i].fullName, svcs[i].methods[j]),
                     methods |-> << >>]]])
    IN  Of(Flatten([i \in 1..Len(files) |-> ServicesOf(files[i])]))

\* files.FindDescriptorByName(name): the descriptors of that name, at most one
FindDescriptorByName(files, name) ==
    SelectSeq(Declarations(files), LAMBDA d : d.fullName = name)

\* what a lookup returns: the result r of the reflection call with the
\* registry that was built (files), the descriptor found and the error
Looked(r, files, values, err) ==
    [out |-> r.out, values |-> values, err |-> err, text |-> r.text, cause |-> r.cause,
     files |-> files]

\* ReflectionClient.FileContainingSymbol(ctx, symbol) from the check of the
\* response on: the first of the descriptors
FileContainingSymbol(rc) ==
    LET First(r) ==
          IF r.out # "ok" \/ r.err # "nil" THEN r
          ELSE IF r.values = << >>
          THEN [r EXCEPT !.err = "no file descriptors returned"]
          ELSE [r EXCEPT !.values = << r.values[1] >>]
    IN  First(FileContainingSymbolWithDeps(rc))

\* ReflectionSource.FindSymbol(name)
FindSymbol(rc) ==
    LET Found(r, reg, desc) ==
          IF desc = << >> THEN Looked(r, reg.files, << >>, "not found")
          ELSE Looked(r, reg.files, << desc[1] >>, "nil")
        Built(r, reg) ==
          IF reg.err # "nil" THEN Looked(r, << >>, << >>, reg.err)
          ELSE Found(r, reg, FindDescriptorByName(reg.files, rc.symbol))
        Got(r) ==
          IF r.out # "ok" \/ r.err # "nil" THEN Looked(r, << >>, << >>, r.err)
          ELSE Built(r, ReflectedFiles(r.values))
    IN  Got(FileContainingSymbol(rc))

\* ReflectionClient.ResolveService(ctx, serviceName), which
\* ReflectionSource.FindService(name) returns
ResolveService(rc) ==
    LET Found(r, reg, desc) ==
          IF desc = << >> THEN Looked(r, reg.files, << >>, "service not found")
          ELSE IF desc[1].kind # "service"
          THEN Looked(r, reg.files, << >>, "is not a service")
          ELSE Looked(r, reg.files, << desc[1] >>, "nil")
        Built(r, reg) ==
          IF reg.err # "nil" THEN Looked(r, << >>, << >>, "failed to create file registry")
          ELSE Found(r, reg, FindDescriptorByName(reg.files, rc.symbol))
        Got(r) ==
          IF r.out # "ok" \/ r.err # "nil" THEN Looked(r, << >>, << >>, r.err)
          ELSE Built(r, ReflectedFiles(r.values))
    IN  Got(FileContainingSymbolWithDeps(rc))

\* ReflectionClient.ResolveMethod(ctx, service, method), which
\* ReflectionSource.FindMethod(service, method) returns
ResolveMethod(rc, method) ==
    LET Method(r) ==
          IF r.out # "ok" \/ r.err # "nil" THEN r
          ELSE IF ByName(r.values[1].methods, method) = 0
          THEN [r EXCEPT !.values = << >>, !.err = "method not found"]
          ELSE [r EXCEPT !.values =
                  << [kind |-> "method",
                      fullName |-> FullName(r.values[1].fullName, method),
                      methods |-> << >>] >>]
    IN  Method(ResolveService(rc))

\* the descriptor sets given to NewFileSource: up to two of these files.
\* "p.S" with the methods "m", "n"; "q.S" with "m" and "q.T" with none; a
\* file with no package and no service; "p.T" with "n"; "S" with "m"
\* and no package; and a second file that declares "p.S"
Service(name, methods) == [name |-> name, methods |-> methods]

FileDescriptors ==
    {[package |-> << 112 >>, services |-> << Service(<< 83 >>, << << 109 >>, << 110 >> >>) >>],
     [package |-> << 113 >>,
      services |-> << Service(<< 83 >>, << << 109 >> >>), Service(<< 84 >>, << >>) >>],
     [package |-> << >>, services |-> << >>],
     [package |-> << 112 >>, services |-> << Service(<< 84 >>, << << 110 >> >>) >>],
     [package |-> << >>, services |-> << Service(<< 83 >>, << << 109 >> >>) >>],
     [package |-> << 112 >>, services |-> << Service(<< 83 >>, << << 110 >> >>) >>]}

DescriptorSets ==
    {<< >>} \cup {<< f >> : f \in FileDescriptors}
    \cup {fs \in FileDescriptors \X FileDescriptors : fs[1] # fs[2]}

\* the names looked up: "p.S", "q.S", "q.T", "p.T", "S", "T", "p", "p.U", ""
LookupNames ==
    {<< 112, 46, 83 >>, << 113, 46, 83 >>, << 113, 46, 84 >>, << 112, 46, 84 >>,
     << 83 >>, << 84 >>, << 112 >>, << 112, 46, 85 >>, << >>}

\* the method names looked up: "m", "n", "x", ""
LookupMethods == {<< 109 >>, << 110 >>, << 120 >>, << >>}

\* lookups made on one FileSource
MaxLookups == 2

\* the symbols given to encodeFileContainingSymbolRequest: "", "a", "a.b"
\* and names of 127, 128 and 300 bytes
EncodedSymbols == Symbols \cup {<< >>, Repeat(97, 127), Repeat(97, 128), Repeat(97, 300)}

\* the texts given as a method name: up to MaxMethodLen bytes of "/", "." and "a"
MaxMethodLen == 4

MethodTexts == SeqsUpTo({SLASH, 46, 97}, MaxMethodLen)

\* the Options values a client is built from
OptionChoices == {NilOptions, Options(0), Options(ConfiguredLimit)}

\* the limits a Decoder is given directly
LimitChoices == {MaxMessageSize, ConfiguredLimit}

(***************************************************************************)
(* The state machine                                                       *)
(***************************************************************************)
VARIABLES
    pc,        \* where the run is: "init", "replied", "client", "stream", "returned", "done"
    http,      \* the reply being delivered (a Reply)
    client,    \* the Client built by NewClient
    ss,        \* the locals of the running InvokeServerStream
    rc,        \* the locals of the running reflection operation
    fileSource, \* the FileSource built by NewFileSource
    lookups,   \* the number of lookups made on fileSource
    ret,       \* the last call that returned: [fn, arg, res]
    outcome    \* what the caller made of the returned response

vars == << pc, http, client, ss, rc, fileSource, lookups, ret, outcome >>

NoReply == Reply("none", << >>, << >>, -1, -1)
NoClient == [maxMsgSize |-> -1]
NoStream == [pc |-> "none", handler |-> "nil", log |-> << >>]
NoReflection == [pc |-> "none", calls |-> << >>]
NoFileSource == [state |-> "nil", err |-> "nil"]
NoRet == [fn |-> "none", arg |-> << >>, res |-> << >>]

Init ==
    /\ pc = "init"
    /\ http = NoReply
    /\ client = NoClient
    /\ ss = NoStream
    /\ rc = NoReflection
    /\ fileSource = NoFileSource
    /\ lookups = 0
    /\ ret = NoRet
    /\ outcome = "none"

\* the test calls EncodeFrame(frame)
EncodeFrameCall ==
    /\ pc = "init"
    /\ \E t \in {FrameData, FrameTrailer}, p \in Payloads :
          ret' = [fn |-> "EncodeFrame", arg |-> Frame(t, p), res |-> EncodeFrame(Frame(t, p))]
    /\ pc' = "done"
    /\ UNCHANGED << http, client, ss, rc, fileSource, lookups, outcome >>

\* EncodeMessage(message): the bytes go on the wire
EncodeMessageCall ==
    /\ pc = "init"
    /\ \E p \in Payloads :
          /\ ret' = [fn |-> "EncodeMessage", arg |-> p, res |-> EncodeMessage(p)]
          /\ http' = Reply("encoded", << DataF(p) >>, EncodeMessage(p), -1, -1)
    /\ pc' = "replied"
    /\ UNCHANGED << client, ss, rc, fileSource, lookups, outcome >>

\* the server answers
ServerReply ==
    /\ pc = "init"
    /\ \E h \in Replies : http' = h
    /\ pc' = "replied"
    /\ UNCHANGED << client, ss, rc, fileSource, lookups, ret, outcome >>

\* NewDecoder(reader), SetMaxMessageSize(limit), DecodeFrame()
DecodeFrameCall ==
    /\ pc = "replied"
    /\ http.transport = "ok"
    /\ \E limit \in LimitChoices :
          ret' = [fn |-> "DecodeFrame", arg |-> limit,
                  res |-> DecodeFrame(Reader(Body(http), http.failAt), limit)]
    /\ pc' = "done"
    /\ UNCHANGED << http, client, ss, rc, fileSource, lookups, outcome >>

\* NewDecoder(reader).DecodeAll()
DecodeAllCall ==
    /\ pc = "replied"
    /\ http.transport = "ok"
    /\ ret' = [fn |-> "DecodeAll", arg |-> MaxMessageSize,
               res |-> DecodeAll(Reader(Body(http), http.failAt), MaxMessageSize)]
    /\ pc' = "done"
    /\ UNCHANGED << http, client, ss, rc, fileSource, lookups, outcome >>

\* DecodeMessage(data) on a byte slice
DecodeMessageCall ==
    /\ pc = "replied"
    /\ http.transport = "ok" /\ http.failAt = -1
    /\ ret' = [fn |-> "DecodeMessage", arg |-> << >>, res |-> DecodeMessage(Body(http))]
    /\ pc' = "done"
    /\ UNCHANGED << http, client, ss, rc, fileSource, lookups, outcome >>

\* DecodeResponse(data) on a byte slice
DecodeResponseCall ==
    /\ pc = "replied"
    /\ http.transport = "ok" /\ http.failAt = -1
    /\ ret' = [fn |-> "DecodeResponse", arg |-> << >>, res |-> DecodeResponse(Body(http))]
    /\ pc' = "done"
    /\ UNCHANGED << http, client, ss, rc, fileSource, lookups, outcome >>

\* NewClient(address, opts)
NewClientCall ==
    /\ pc = "replied"
    /\ http.kind # "encoded"
    /\ \E opts \in OptionChoices : client' = NewClient(opts)
    /\ pc' = "client"
    /\ UNCHANGED << http, ss, rc, fileSource, lookups, ret, outcome >>

\* client.Invoke(ctx, req)
InvokeCall ==
    /\ pc = "client"
    /\ ret' = [fn |-> "Invoke", arg |-> << >>, res |-> Invoke(client, http)]
    /\ pc' = "returned"
    /\ UNCHANGED << http, client, ss, rc, fileSource, lookups, outcome >>

\* InvokeServerStream has returned: its result is the call's result
StreamNext(s) ==
    /\ ss' = s
    /\ IF s.pc = "return"
       THEN /\ pc' = "returned"
            /\ ret' = [fn |-> "InvokeServerStream", arg |-> s.handler,
                       res |-> [resp |-> s.resp, err |-> s.err]]
       ELSE /\ pc' = "stream"
            /\ UNCHANGED ret
    /\ UNCHANGED << http, client, rc, fileSource, lookups, outcome >>

\* client.InvokeServerStream(ctx, req, handler) up to its loop
StreamStart ==
    /\ pc = "client"
    /\ \E handler \in {"nil", "fn"} : StreamNext(StreamBegin(client, http, handler))

\* one iteration of the loop: the next frame is read and dispatched
StreamReadFrame ==
    /\ pc = "stream" /\ ss.pc = "read"
    /\ StreamNext(StreamRead(ss, http))

\* the handler returns nil or an error
HandlerReturn ==
    /\ pc = "stream" /\ ss.pc = "handler"
    /\ \E herr \in {"nil", "error"} : StreamNext(StreamHandlerReturn(ss, herr))

\* runInvoke goes on with what the call returned
RunInvokeReturn ==
    /\ pc = "returned"
    /\ outcome' = RunInvokeResult(ret.res)
    /\ pc' = "done"
    /\ UNCHANGED << http, client, ss, rc, fileSource, lookups, ret >>

\* the reflection client goes on with the response of its Invoke
ReflectionReturn ==
    /\ pc = "returned"
    /\ ret.fn = "Invoke" /\ ret.res.err = "nil"
    /\ outcome' = ReflectionResult(ret.res.resp)
    /\ pc' = "done"
    /\ UNCHANGED << http, client, ss, rc, fileSource, lookups, ret >>

\* ParseServiceMethod(fullMethod), as runInvoke calls it on its argument
ParseServiceMethodCall ==
    /\ pc = "init"
    /\ \E s \in MethodTexts :
          ret' = [fn |-> "ParseServiceMethod", arg |-> s, res |-> ParseServiceMethod(s)]
    /\ pc' = "done"
    /\ UNCHANGED << http, client, ss, rc, fileSource, lookups, outcome >>

\* the operations that ask for the file containing a symbol
SymbolOps ==
    {"FileContainingSymbolWithDeps", "ReflectionSource.FindSymbol",
     "ReflectionSource.FindService", "ReflectionSource.FindMethod"}

\* rc.ListServices(ctx), rc.FileContainingSymbolWithDeps(ctx, symbol) or a
\* lookup of a ReflectionSource up to the return of the first Invoke
ReflectionStart ==
    /\ pc = "client"
    /\ \E req \in {[op |-> "ListServices", symbol |-> << >>,
                    reqBytes |-> encodeListServicesRequest]}
                  \cup {[op |-> op, symbol |-> symbol,
                         reqBytes |-> encodeFileContainingSymbolRequest(symbol)] :
                           op \in SymbolOps, symbol \in Symbols} :
          rc' = ReflectionBegin(client, req.op, req.symbol, req.reqBytes, http)
    /\ pc' = "reflect"
    /\ UNCHANGED << http, client, ss, fileSource, lookups, ret, outcome >>

\* the second Invoke, which the v1 service answers
ReflectionRetryCall ==
    /\ pc = "reflect" /\ rc.pc = "retry"
    /\ \E h2 \in RetryReplies : rc' = ReflectionRetry(client, rc, h2)
    /\ UNCHANGED << pc, http, client, ss, fileSource, lookups, ret, outcome >>

\* the rest of the operation, to its return
ReflectionFinish ==
    /\ pc = "reflect" /\ rc.pc \in {"check", "return"}
    /\ \E method \in IF rc.op = "ReflectionSource.FindMethod" THEN LookupMethods
                     ELSE {<< >>} :
          ret' = [fn |-> rc.op, arg |-> rc.symbol, method |-> method,
                  res |-> CASE rc.op = "ListServices" -> ListServices(rc)
                            [] rc.op = "FileContainingSymbolWithDeps" ->
                                  FileContainingSymbolWithDeps(rc)
                            [] rc.op = "ReflectionSource.FindSymbol" -> FindSymbol(rc)
                            [] rc.op = "ReflectionSource.FindService" -> ResolveService(rc)
                            [] rc.op = "ReflectionSource.FindMethod" ->
                                  ResolveMethod(rc, method)]
    /\ pc' = "done"
    /\ UNCHANGED << http, client, ss, rc, fileSource, lookups, outcome >>

\* one of the extractors of the reflection responses is applied to a buffer
ExtractorCall ==
    /\ pc = "init"
    /\ \E data \in Buffers :
          \/ ret' = [fn |-> "parseListServicesResponse", arg |-> data,
                     res |-> parseListServicesResponse(data)]
          \/ ret' = [fn |-> "parseServiceList", arg |-> data, res |-> parseServiceList(data)]
          \/ ret' = [fn |-> "parseServiceName", arg |-> data, res |-> parseServiceName(data)]
          \/ ret' = [fn |-> "parseReflectionError", arg |-> data,
                     res |-> parseReflectionError(data)]
          \/ ret' = [fn |-> "parseErrorResponse", arg |-> data, res |-> parseErrorResponse(data)]
          \/ ret' = [fn |-> "parseAllFileDescriptors", arg |-> data,
                     res |-> parseAllFileDescriptors(data)]
          \/ ret' = [fn |-> "parseAllFileDescriptorProtos", arg |-> data,
                     res |-> parseAllFileDescriptorProtos(data)]
    /\ pc' = "done"
    /\ UNCHANGED << http, client, ss, rc, fileSource, lookups, outcome >>

\* the caller builds a FileSource from a descriptor set
NewFileSourceCall ==
    /\ pc = "init"
    /\ \E descriptors \in DescriptorSets :
          /\ fileSource' = NewFileSource(descriptors)
          /\ ret' = [fn |-> "NewFileSource", arg |-> descriptors,
                     res |-> [err |-> fileSource'.err]]
          /\ pc' = IF fileSource'.err = "nil" THEN "source" ELSE "done"
    /\ UNCHANGED << http, client, ss, rc, lookups, outcome >>

FindServiceCall ==
    /\ pc = "source"
    /\ lookups < MaxLookups
    /\ \E name \in LookupNames :
          ret' = [fn |-> "FindService", arg |-> << name >>,
                  res |-> FindService(fileSource, name)]
    /\ lookups' = lookups + 1
    /\ UNCHANGED << pc, http, client, ss, rc, fileSource, outcome >>

FindMethodCall ==
    /\ pc = "source"
    /\ lookups < MaxLookups
    /\ \E service \in LookupNames, method \in LookupMethods :
          ret' = [fn |-> "FindMethod", arg |-> << service, method >>,
                  res |-> FindMethod(fileSource, service, method)]
    /\ lookups' = lookups + 1
    /\ UNCHANGED << pc, http, client, ss, rc, fileSource, outcome >>

\* a reflection request is encoded
EncodeRequestCall ==
    /\ pc = "init"
    /\ \/ ret' = [fn |-> "encodeListServicesRequest", arg |-> << >>,
                  res |-> encodeListServicesRequest]
       \/ \E symbol \in EncodedSymbols :
             ret' = [fn |-> "encodeFileContainingSymbolRequest", arg |-> symbol,
                     res |-> encodeFileContainingSymbolRequest(symbol)]
    /\ pc' = "done"
    /\ UNCHANGED << http, client, ss, rc, fileSource, lookups, outcome >>

Next ==
    \/ ServerReply
    \/ DecodeFrameCall
    \/ DecodeAllCall
    \/ DecodeMessageCall
    \/ DecodeResponseCall
    \/ NewClientCall
    \/ InvokeCall
    \/ StreamStart
    \/ StreamReadFrame
    \/ HandlerReturn
    \/ RunInvokeReturn
    \/ ReflectionReturn
    \/ ParseServiceMethodCall
    \/ ReflectionStart
    \/ ReflectionRetryCall
    \/ ReflectionFinish
    \/ ExtractorCall
    \/ NewFileSourceCall
    \/ FindServiceCall
    \/ FindMethodCall
    \/ EncodeRequestCall
    \/ EncodeFrameCall
    \/ EncodeMessageCall

Spec == Init /\ [][Next]_vars

(***************************************************************************)
(* Properties                                                              *)
(***************************************************************************)
\* what a trailer line "key: value" stands for
HasColon(line) == \E i \in 1..Len(line) : line[i] = COLON

KeyOf(line) == TrimSpace(ToLower(SubSeq(line, 1, IndexByte(line, 1, COLON) - 1)))

ValueOf(line) == TrimSpace(Tail2(line, IndexByte(line, 1, COLON) + 1))

\* the entries a sequence of lines stands for: one entry for each key, with
\* the value of the last line that has the key
ExpectedTrailers(lines) ==
    LET idx == {i \in 1..Len(lines) : HasColon(lines[i])}
        last(k) == CHOOSE i \in idx : /\ KeyOf(lines[i]) = k
                                      /\ \A j \in idx : KeyOf(lines[j]) = k => j <= i
    IN  [k \in {KeyOf(lines[i]) : i \in idx} |-> ValueOf(lines[last(k)])]

\* the lines of all the trailer frames of a reply, in stream order
RECURSIVE TrailerLinesOf(_)
TrailerLinesOf(frames) ==
    IF frames = << >> THEN << >>
    ELSE (IF Head(frames).flag >= 128 THEN LinesOf(Head(frames)) ELSE << >>)
         \o TrailerLinesOf(Tail(frames))

\* a reply whose body is whole frames, delivered in full with HTTP 200
WholeReply == http.kind = "frames" /\ http.transport = "ok" /\ http.StatusCode = 200

\* N frames with flag 0x00 and then one frame with flag 0x80 carrying lines
DataThenTrailer ==
    /\ WholeReply
    /\ Len(http.frames) >= 1
    /\ \A i \in 1..(Len(http.frames) - 1) : http.frames[i].flag = 0
    /\ http.frames[Len(http.frames)].flag = 128
    /\ http.frames[Len(http.frames)].text

\* every frame has flag 0x00, or flag 0x80 and carries lines, and there is
\* a frame of the second kind
LinesReply ==
    /\ WholeReply
    /\ \A i \in 1..Len(http.frames) :
          http.frames[i].flag = 0 \/ (http.frames[i].flag = 128 /\ http.frames[i].text)
    /\ \E i \in 1..Len(http.frames) : http.frames[i].flag = 128

\* the offsets in the body of a reply at which a frame starts or the body ends
Boundaries(frames) == {Len(Wire(SubSeq(frames, 1, k))) : k \in 0..Len(frames)}

\* the body ends, or the read breaks, somewhere else than at the clean end of
\* the last frame
Truncated ==
    \/ http.kind = "broken"
    \/ http.kind = "cut" /\ Len(Body(http)) \notin Boundaries(http.frames)

Returned(fn) == pc \in {"returned", "done"} /\ ret.fn = fn

\* C1: decoding the encoding of a payload gives the payload back, no error
C1_RoundTrip ==
    (Returned("DecodeMessage") /\ http.kind = "encoded")
        => ret.res = [data |-> PayloadOf(http.frames[1]), err |-> "nil"]

C1_Witness ==
    /\ Returned("DecodeMessage") /\ http.kind = "encoded"
    /\ Len(PayloadOf(http.frames[1])) = 258
    /\ ret.res.data = PayloadOf(http.frames[1])

\* C2: EncodeFrame writes the flag byte, the payload length as four
\* big-endian bytes and then the payload, and nothing else; five zero bytes
\* for an empty Data payload
C2_EncodeFrameLayout ==
    Returned("EncodeFrame") =>
        LET out == ret.res
            f == ret.arg
        IN  /\ Len(out) = 5 + Len(f.Payload)
            /\ out[1] = (IF f.Type = FrameData THEN 0 ELSE 128)
            /\ \A i \in 2..5 : out[i] \in 0..255
            /\ out[2] * 16777216 + out[3] * 65536 + out[4] * 256 + out[5] = Len(f.Payload)
            /\ SubSeq(out, 6, Len(out)) = f.Payload
            /\ (f = Frame(FrameData, << >>) => out = << 0, 0, 0, 0, 0 >>)

C2_Witness ==
    /\ Returned("EncodeFrame")
    /\ ret.arg.Type = FrameTrailer
    /\ Len(ret.arg.Payload) = 258
    /\ SubSeq(ret.res, 1, 5) = << 128, 0, 0, 1, 2 >>

\* C3 (as claimed): DecodeResponse on N Data frames and one Trailer frame
\* gives the N payloads in order, the trailer's entries, and a status: from
\* grpc-status / grpc-message when present, otherwise one with code 0
C3_DecodeResponseAsClaimed ==
    (Returned("DecodeResponse") /\ DataThenTrailer) =>
        LET n == Len(http.frames) - 1
            exp == ExpectedTrailers(LinesOf(http.frames[n + 1]))
            r == ret.res.resp
        IN  /\ ret.res.err = "nil"
            /\ r.Messages = [i \in 1..n |-> PayloadOf(http.frames[i])]
            /\ r.Trailers = exp
            /\ ~r.Status.nil
            /\ r.Status.Code = (IF GrpcStatusKey \in DOMAIN exp
                                THEN SscanfInt(exp[GrpcStatusKey]) ELSE 0)
            /\ (GrpcMessageKey \in DOMAIN exp => r.Status.Message = exp[GrpcMessageKey])

\* C4: a frame that declares more than the decoder's limit fails with the
\* size error after the 5 header bytes: no payload byte read, no buffer made
DeclaresMoreThan(body, limit) ==
    \/ body[2] >= 128
    \/ body[2] * 16777216 + body[3] * 65536 + body[4] * 256 + body[5] > limit

HeaderDelivered ==
    Len(Body(http)) >= 5 /\ (http.failAt = -1 \/ http.failAt >= 5)

C4_OversizeStopsAtHeader ==
    (Returned("DecodeFrame") /\ HeaderDelivered /\ DeclaresMoreThan(Body(http), ret.arg))
        => /\ ret.res.err = "size"
           /\ ret.res.r.pos = 5
           /\ ret.res.alloc = -1
           /\ ret.res.frame = NoFrame

C4_Witness ==
    /\ Returned("DecodeFrame") /\ ret.arg = ConfiguredLimit
    /\ http.kind = "frames"
    /\ Len(Body(http)) = 5 + ConfiguredLimit + 1
    /\ ret.res.err = "size" /\ ret.res.r.pos = 5

\* C5 (as claimed): a call of a client with a configured limit fails when
\* the reply holds a frame that declares more than the limit, in Invoke as
\* in InvokeServerStream
C5_ClientLimitAsClaimed ==
    (/\ pc \in {"returned", "done"} /\ ret.fn \in {"Invoke", "InvokeServerStream"}
     /\ WholeReply
     /\ client.maxMsgSize > 0
     /\ \E i \in 1..Len(http.frames) : Len(PayloadOf(http.frames[i])) > client.maxMsgSize)
        => ret.res.err # "nil"

\* C6: clean end-of-stream only with zero bytes left at the start of a
\* frame; a partial header, a short payload and a broken read are errors
\* for DecodeFrame, DecodeAll, DecodeResponse and InvokeServerStream
C6_TruncationIsAnError ==
    /\ Returned("DecodeFrame") =>
          (ret.res.err = "EOF" <=> (http.failAt = -1 /\ Len(Body(http)) = 0))
    /\ (Returned("DecodeAll") /\ Truncated) =>
          ret.res.err \in {"ErrUnexpectedEOF", "io", "payload(EOF)",
                           "payload(ErrUnexpectedEOF)", "payload(io)"}
    /\ (Returned("DecodeResponse") /\ Truncated) => ret.res.err # "nil"
    /\ (Returned("Invoke") /\ Truncated) => ret.res.err # "nil"
    /\ (Returned("InvokeServerStream") /\ Truncated) => ret.res.err # "nil"

C6_Witness ==
    /\ Returned("DecodeAll") /\ http.kind = "cut"
    /\ Len(Body(http)) = 5
    /\ ret.res.err = "payload(EOF)"
    /\ ret.res.frames = << >>

\* C7 (as claimed): the high bit of the flag byte alone decides: bit set is
\* a trailer frame, bit clear a data message, whatever the low 7 bits are
FirstFrameByHighBit(resp) ==
    LET f == http.frames[1]
    IN  IF f.flag >= 128
        THEN /\ \A k \in DOMAIN ExpectedTrailers(LinesOf(f)) : k \in DOMAIN resp.Trailers
             /\ (resp.Messages = << >> \/ resp.Messages[1] # PayloadOf(f))
        ELSE Len(resp.Messages) >= 1 /\ resp.Messages[1] = PayloadOf(f)

FlagReply == WholeReply /\ http \in FlagReplies

C7_HighBitAsClaimed ==
    (/\ pc \in {"returned", "done"}
     /\ ret.fn \in {"DecodeResponse", "Invoke", "InvokeServerStream"}
     /\ FlagReply /\ ret.res.err = "nil")
        => FirstFrameByHighBit(ret.res.resp)

\* C8 (as claimed): the trailers of a response are the entries of the
\* CRLF-terminated lines of its trailer frames: split at the first colon,
\* key lower-cased, lines without a colon and blank lines skipped, the last
\* occurrence of a key kept
C8_TrailerLinesAsClaimed ==
    (/\ pc \in {"returned", "done"}
     /\ ret.fn \in {"DecodeResponse", "Invoke", "InvokeServerStream"}
     /\ LinesReply /\ ret.res.err = "nil")
        => ret.res.resp.Trailers = ExpectedTrailers(TrailerLinesOf(http.frames))

\* C9: no grpc-status in the reply (no trailer frame, or trailers without
\* the key) is status OK: no caller reports an error for it
NoStatusLine ==
    \A i \in 1..Len(http.frames) : \A j \in 1..Len(LinesOf(http.frames[i])) :
        http.frames[i].flag >= 128 /\ HasColon(LinesOf(http.frames[i])[j])
            => KeyOf(LinesOf(http.frames[i])[j]) # GrpcStatusKey

C9_MissingStatusIsOK ==
    (/\ pc = "done" /\ outcome # "none"
     /\ WholeReply /\ NoStatusLine /\ ret.res.err = "nil")
        => outcome \in {"ok", "no response", "parse"}

C9_Witness ==
    /\ pc = "done" /\ outcome = "ok" /\ ret.fn = "Invoke"
    /\ WholeReply /\ \A i \in 1..Len(http.frames) : http.frames[i].flag = 0
    /\ Len(ret.res.resp.Messages) = 2
    /\ ret.res.resp.Status.nil

IsCall(e) == e.ev = "call"

IsDataFrameEvent(e) == e.ev = "frame" /\ e.type = FrameData

IsFrameEvent(e) == e.ev = "frame"

PayloadsOf(events) == [i \in 1..Len(events) |-> events[i].payload]

\* the frames of a reply that are data frames by the high bit of their flag
RECURSIVE DataPayloadsOf(_)
DataPayloadsOf(frames) ==
    IF frames = << >> THEN << >>
    ELSE (IF Head(frames).flag < 128 THEN << PayloadOf(Head(frames)) >> ELSE << >>)
         \o DataPayloadsOf(Tail(frames))

\* C10 (as claimed): when InvokeServerStream with a handler has returned
\* without error, the handler has been called exactly once for each Data
\* frame of the reply (a frame whose flag has the high bit clear), in
\* arrival order and with the frame's payload
C10_HandlerPerDataFrameAsClaimed ==
    (/\ Returned("InvokeServerStream") /\ ss.handler # "nil"
     /\ WholeReply /\ ret.res.err = "nil")
        => PayloadsOf(SelectSeq(ss.log, IsCall)) = DataPayloadsOf(http.frames)

\* for the frames of type FrameData (flag 0x00) the handler is in step with
\* the loop: it is entered right after such a frame is read, in arrival
\* order, and has returned before the next frame is read
HandlerInStep ==
    (pc \in {"stream", "returned", "done"} /\ ss.handler # "nil") =>
        LET log == ss.log
            read == SelectSeq(log, IsFrameEvent)
        IN  /\ PayloadsOf(SelectSeq(log, IsCall)) = PayloadsOf(SelectSeq(log, IsDataFrameEvent))
            /\ \A i \in 1..Len(log) :
                  /\ IsDataFrameEvent(log[i]) =>
                        i < Len(log) /\ log[i + 1] = Event("call", FrameData, log[i].payload)
                  /\ IsCall(log[i]) =>
                        /\ i > 1 /\ IsDataFrameEvent(log[i - 1])
                        /\ IF i = Len(log) THEN ss.pc = "handler"
                           ELSE log[i + 1] = Event("return", FrameData, log[i].payload)
            /\ http.kind = "frames" =>
                  /\ Len(read) <= Len(http.frames)
                  /\ \A i \in 1..Len(read) :
                        read[i].type = http.frames[i].flag
                        /\ read[i].payload = PayloadOf(http.frames[i])

\* C11: when the handler returns an error, InvokeServerStream reads no
\* further frame and calls the handler no more: the handler's return is the
\* last thing that happened, the decoder stands right behind the frame the
\* handler was given, and the call returns the wrapped error and no response
HandlerFailed == pc \in {"returned", "done"} /\ ss.pc = "return" /\ ss.err = "handler error"

C11_HandlerErrorEndsCall ==
    HandlerFailed =>
        LET log == ss.log
            n == Len(log)
            read == SelectSeq(log, IsFrameEvent)
        IN  /\ ret.fn = "InvokeServerStream"
            /\ ret.res = [resp |-> NilResponse, err |-> "handler error"]
            /\ n >= 3
            /\ log[n].ev = "return" /\ IsCall(log[n - 1]) /\ IsDataFrameEvent(log[n - 2])
            /\ log[n].payload = log[n - 2].payload
            /\ Len(SelectSeq(log, IsCall)) = Len(SelectSeq(log, IsDataFrameEvent))
            /\ http.kind = "frames" =>
                  ss.pos = Len(Wire(SubSeq(http.frames, 1, Len(read))))

\* the handler fails on the second of three frames
C11_Witness ==
    /\ HandlerFailed
    /\ http.kind = "frames" /\ Len(http.frames) = 3
    /\ Len(SelectSeq(ss.log, IsCall)) = 2
    /\ ss.pos < Len(Body(http))

\* C12: ParseServiceMethod succeeds exactly when its argument holds exactly
\* one "/", with the text before it as the service and the text after it as
\* the method ("/" gives two empty texts); otherwise it is a format error
Slashes(s) == {i \in 1..Len(s) : s[i] = SLASH}

C12_ExactlyOneSlash ==
    Returned("ParseServiceMethod") =>
        LET s == ret.arg
            r == ret.res
        IN  /\ (r.err = "nil") <=> (Cardinality(Slashes(s)) = 1)
            /\ r.err # "nil" => r.err = "invalid method format"
            /\ r.err = "nil" =>
                  /\ r.service \o << SLASH >> \o r.method = s
                  /\ Slashes(r.service) = {} /\ Slashes(r.method) = {}
            /\ (s = << SLASH >> => r = [service |-> << >>, method |-> << >>, err |-> "nil"])

C12_Witness ==
    /\ Returned("ParseServiceMethod")
    /\ ret.arg = << 97, 46, 97, SLASH >>
    /\ ret.res = [service |-> << 97, 46, 97 >>, method |-> << >>, err |-> "nil"]

\* C13: a reflection request (ListServices, FileContainingSymbolWithDeps)
\* invokes the v1alpha service first, with the request message of the
\* operation; it invokes the v1 service only after that invocation has
\* returned an error, once, with the same message bytes; there are never more
\* than two invocations; and when the second invocation fails too, the
\* operation returns the second invocation's error, wrapped.
ReflectionDone == pc = "done" /\ rc.pc # "none"

C13_FallbackOnce ==
    rc.pc # "none" =>
      LET calls == rc.calls
          n == Len(calls)
      IN  /\ n \in {1, 2}
          /\ calls[1].Service = reflectionServiceName
          /\ calls[1].Message = IF rc.op = "ListServices" THEN << 58, 0 >>
                                ELSE << 34, Len(rc.symbol) >> \o rc.symbol
          /\ calls[1].err = Invoke(client, http).err
          /\ (rc.pc = "retry") = (n = 1 /\ calls[1].err # "nil")
          /\ n = 2 => /\ calls[1].err # "nil"
                      /\ calls[2].Service = reflectionV1ServiceName
                      /\ calls[2].Message = calls[1].Message
          /\ ReflectionDone =>
                /\ ret.fn = rc.op
                /\ (calls[n].err # "nil") = (ret.res.err = "reflection request failed")
                /\ calls[n].err # "nil" =>
                      n = 2 /\ ret.res.cause = calls[2].err /\ ret.res.values = << >>

C13_Witness ==
    /\ ReflectionDone
    /\ Len(rc.calls) = 2
    /\ rc.calls[1].err = "HTTP error"
    /\ rc.calls[2].err = "request failed"
    /\ ret.res.err = "reflection request failed"

\* a reflection operation has returned after it got a response with a
\* message; Message is that message
ReflectionParsed ==
    ReflectionDone /\ rc.pc = "check" /\ ReflectionResult(rc.resp) = "parse"

Message == rc.resp.Messages[1]

\* the error_message texts (field 2, not empty) of the error_response fields
\* (field 7) of a response message
ErrorMessages(data) ==
    LET E == PayloadsAt(data, 7)
        M == [i \in 1..Len(E) |-> SelectSeq(PayloadsAt(E[i], 2), LAMBDA m : m # << >>)]
    IN  Flatten(M)

\* C14: when the response message has an error_response (field 7) with an
\* error_message, the operation (ListServices, FileContainingSymbolWithDeps)
\* returns an error that carries that message and returns no values, whether
\* or not the message has a well-formed list_services_response or
\* file_descriptor_response too.
C14_ErrorResponseAsClaimed ==
    (ReflectionParsed /\ ErrorMessages(Message) # << >>) =>
        /\ ret.res.out = "ok"
        /\ ret.res.err = "reflection error: text"
        /\ ret.res.values = << >>
        /\ ret.res.text.kind = "message"
        /\ ret.res.text.message \in {ErrorMessages(Message)[i] :
                                       i \in 1..Len(ErrorMessages(Message))}

\* C15: applied to any buffer, the reflection extractors never index or
\* slice outside the buffer, so none of them panics.
Extractors ==
    {"parseListServicesResponse", "parseServiceList", "parseServiceName",
     "parseReflectionError", "parseErrorResponse", "parseAllFileDescriptors",
     "parseAllFileDescriptorProtos"}

C15_ExtractorsNeverPanicAsClaimed ==
    ret.fn \in Extractors => ret.res.out # "panic"

\* the service names of a ListServices reply, as the wire format gives them:
\* list_services_response (6) / service (1) / name (1), in encounter order
ServiceNamesOf(data) ==
    Flatten([i \in 1..Len(PayloadsAt(data, 6)) |->
        Flatten([j \in 1..Len(PayloadsAt(PayloadsAt(data, 6)[i], 1)) |->
            PayloadsAt(PayloadsAt(PayloadsAt(data, 6)[i], 1)[j], 1)])])

\* C16: ListServices returns the server's service names without the
\* reflection service's own name, in ascending lexicographic order.
C16_ListServicesFilteredAsClaimed ==
    (ReflectionParsed /\ rc.op = "ListServices" /\ ret.res.err = "nil") =>
        ret.res.values =
            SortStrings(SelectSeq(ServiceNamesOf(Message),
                LAMBDA name : name \notin {reflectionServiceName, reflectionV1ServiceName}))

\* the file_descriptor_proto entries (field 1) of the first
\* file_descriptor_response (field 4) of a well-formed message
DescriptorEntriesOf(data) ==
    IF PayloadsAt(data, 4) = << >> THEN << >>
    ELSE PayloadsAt(PayloadsAt(data, 4)[1], 1)

\* C17: parseAllFileDescriptors never succeeds with an empty result: a
\* message without field 4, or whose field 4 holds no field-1 entry, gives an
\* error, and a success returns every field-1 entry of the nested buffer in
\* encounter order.
C17_DescriptorsAsClaimed ==
    (/\ ret.fn = "parseAllFileDescriptors"
     /\ IsMessage(ret.arg)
     /\ \A i \in 1..Len(PayloadsAt(ret.arg, 4)) : IsMessage(PayloadsAt(ret.arg, 4)[i])) =>
        /\ ret.res.out = "ok"
        /\ ret.res.err = "nil" => ret.res.fds # << >>
        /\ DescriptorEntriesOf(ret.arg) = << >> => ret.res.err # "nil"
        /\ ret.res.err = "nil" => ret.res.fds = DescriptorEntriesOf(ret.arg)

\* the services declared by the files a FileSource was built from
DeclaredServices ==
    UNION {{ServicesOf(fileSource.files[i])[j] : j \in 1..Len(fileSource.files[i].services)} :
            i \in 1..Len(fileSource.files)}

LookupsAsDeclared ==
    /\ ret.fn = "FindService" =>
          /\ ret.res.found = (\E svc \in DeclaredServices : svc.fullName = ret.arg[1])
          /\ ret.res.found => /\ ret.res.err = "nil"
                              /\ ret.res.svc \in DeclaredServices
                              /\ ret.res.svc.fullName = ret.arg[1]
          /\ ~ret.res.found => ret.res.err = "service not found"
    /\ ret.fn = "FindMethod" =>
          /\ ret.res.found =
                (\E svc \in DeclaredServices :
                    /\ svc.fullName = ret.arg[1]
                    /\ \E k \in 1..Len(svc.methods) : svc.methods[k] = ret.arg[2])
          /\ ret.res.found => /\ ret.res.err = "nil"
                              /\ ret.res.md = [parent |-> ret.arg[1], name |-> ret.arg[2]]
          /\ ~ret.res.found => ret.res.err \in {"service not found", "method not found"}

\* C18: FindService succeeds exactly when the descriptor set has a service of
\* that full name, FindMethod exactly when that service has a method of that
\* name, which it returns; a miss is a not-found error; and no lookup changes
\* the FileSource, so a later lookup gives the same answer.
C18_LookupsReadOnly ==
    /\ [](LookupsAsDeclared)
    /\ [][fileSource.state = "built" => fileSource' = fileSource]_vars

\* a second lookup finds a method after a first lookup on the same source
C18_Witness ==
    /\ lookups = 2
    /\ ret.fn = "FindMethod"
    /\ ret.res.found
    /\ ret.res.md = [parent |-> << 112, 46, 83 >>, name |-> << 110 >>]

\* Invoke has returned for a reply with an HTTP status other than 200
InvokeNotOK == ret.fn = "Invoke" /\ http.transport = "ok" /\ http.StatusCode # 200

\* the reply's headers carry a gRPC status
CarriesStatus == SscanfInt(http.GrpcStatus) # 0 \/ http.GrpcMessage # << >>

StatusFromHeaders ==
    /\ ret.res.err = "nil"
    /\ ret.res.resp = Response(<< >>, EmptyMap,
                               Status(SscanfInt(http.GrpcStatus), http.GrpcMessage),
                               http.StatusCode)

\* C19 as stated: for an HTTP status other than 200 Invoke returns an error,
\* unless the headers carry a gRPC status, and then it returns a Response
\* with that status and no messages; the body is never decoded.
C19_NotOKAsClaimed ==
    InvokeNotOK =>
        IF CarriesStatus THEN StatusFromHeaders
        ELSE /\ ret.res.err \notin {"nil", "failed to decode response"}
             /\ ret.res.resp = NilResponse

\* C19, amended: the same when the body was read to its end; when the read
\* of the body fails Invoke returns the read error whatever the headers say.
C19_NotOKAfterRead ==
    InvokeNotOK =>
        IF http.failAt >= 0
        THEN ret.res.err = "failed to read response" /\ ret.res.resp = NilResponse
        ELSE IF CarriesStatus THEN StatusFromHeaders
        ELSE ret.res.err = "HTTP error" /\ ret.res.resp = NilResponse

\* a 503 with "Grpc-Message: m" and a body of frames that was never decoded
C19_Witness ==
    /\ InvokeNotOK
    /\ http.failAt = -1
    /\ http.StatusCode = 503
    /\ http.GrpcStatus = << >>
    /\ http.GrpcMessage = << 109 >>
    /\ http.sent = 9
    /\ ret.res.err = "nil"
    /\ ret.res.resp.Status = Status(0, << 109 >>)

\* DecodeAll has returned for a reply made of frames
DecodeAllReturned == ret.fn = "DecodeAll" /\ http.kind \notin {"raw", "encoded"}

\* the bytes of the body that reach the decoder before the end or the break
Delivered == IF http.failAt >= 0 THEN Min(http.failAt, Len(Body(http))) ELSE Len(Body(http))

\* the number of bytes of the first i frames of the reply on the wire
EndOfFrame(i) == Len(Wire(SubSeq(http.frames, 1, i)))

\* the frames that arrived whole
WholeFrames == {i \in 0..Len(http.frames) : EndOfFrame(i) <= Delivered}

\* C20: DecodeAll returns the k frames decoded before an error, in stream
\* order, with the error; at a clean end it returns all frames and no error.
C20_FramesBeforeError ==
    DecodeAllReturned =>
        LET k == CHOOSE i \in WholeFrames : \A j \in WholeFrames : j <= i
        IN  /\ ret.res.frames =
                  [i \in 1..k |-> Frame(http.frames[i].flag, PayloadOf(http.frames[i]))]
            /\ (ret.res.err = "nil") = (http.failAt < 0 /\ Delivered = EndOfFrame(k))

\* two whole frames, then the body ends inside the third frame
C20_Witness ==
    /\ DecodeAllReturned
    /\ http.kind = "cut"
    /\ Len(http.frames) = 3
    /\ Len(ret.res.frames) = 2
    /\ ret.res.err # "nil"

\* a trailer frame (a frame whose flag has the high bit set) is among the
\* frames of the reply that arrived whole
TrailerObserved == \E i \in WholeFrames \ {0} : http.frames[i].flag >= 128

\* a response was produced by decoding the body of a reply
BodyDecoded ==
    /\ pc \in {"returned", "done"}
    /\ ret.fn \in {"DecodeResponse", "Invoke", "InvokeServerStream"}
    /\ http.transport = "ok" /\ http.StatusCode = 200
    /\ http.kind \notin {"raw", "encoded"}
    /\ ret.res.err = "nil"

\* C21: a response produced by decoding a body (by DecodeResponse, Invoke or
\* InvokeServerStream) has a status only if a trailer frame was observed.
C21_StatusOnlyWithTrailerAsClaimed ==
    (BodyDecoded /\ ~ret.res.resp.Status.nil) => TrailerObserved

\* C21, amended: a response of DecodeResponse or Invoke has a status only if
\* a trailer frame was observed; a response of InvokeServerStream always has
\* one, with code 0 and no message when no trailer frame was observed.
C21_StatusOnlyWithTrailer ==
    BodyDecoded =>
        IF ret.fn = "InvokeServerStream"
        THEN /\ ~ret.res.resp.Status.nil
             /\ ~TrailerObserved => ret.res.resp.Status = Status(0, << >>)
        ELSE ~ret.res.resp.Status.nil => TrailerObserved

\* Invoke returns a status taken from the trailer frame behind two data frames
C21_Witness ==
    /\ BodyDecoded /\ ret.fn = "Invoke"
    /\ Len(ret.res.resp.Messages) = 2
    /\ TrailerObserved
    /\ ret.res.resp.Status = Status(3, << >>)

\* C22: ListServices and FileContainingSymbolWithDeps return a failure of the
\* reflection request (a transport or HTTP error, a non-zero status, an empty
\* response) only after the alternate service name was invoked exactly once.
C22_FallbackBeforeFailureAsClaimed ==
    (/\ ReflectionDone
     /\ ret.res.err \in {"reflection request failed", "reflection error", "no response"}) =>
        /\ Len(rc.calls) = 2
        /\ rc.calls[1].Service = reflectionServiceName
        /\ rc.calls[2].Service = reflectionV1ServiceName

\* the varint at the head of data has not ended within 10 bytes, or data
\* ends while the continuation bit is still set
Unended(data) == data # << >> /\ \A i \in 1..Min(10, Len(data)) : data[i] >= 128

\* C23: a varint that has not ended within 10 bytes, or that the end of the
\* buffer cuts, is a decoding error: the file-descriptor extractors, which
\* read the length of the first field with readVarint and can return an
\* error, do not succeed on a buffer whose first length is such a varint.
C23_UnendedVarintFailsAsClaimed ==
    (/\ ret.fn \in {"parseAllFileDescriptors", "parseAllFileDescriptorProtos"}
     /\ Len(ret.arg) >= 2 /\ WireType(ret.arg[1]) = 2
     /\ Unended(Tail(ret.arg))) =>
        ret.res.out = "ok" /\ ret.res.err # "nil"

\* a message whose nested messages at field num are well-formed as well
NestedOK(data, num) ==
    IsMessage(data) /\ \A i \in 1..Len(PayloadsAt(data, num)) : IsMessage(PayloadsAt(data, num)[i])

\* C24: the parser reads each tag as a varint and moves past the whole field
\* (a varint, 8 bytes, a length and that many bytes, 4 bytes), so on a
\* well-formed message parseListServicesResponse returns the names found in
\* field 6 and parseAllFileDescriptors the entries found in field 4, whatever
\* other fields the message has.
C24_WholeFieldsAsClaimed ==
    /\ (ret.fn = "parseListServicesResponse" /\ NestedOK(ret.arg, 6)
            /\ \A i \in 1..Len(PayloadsAt(ret.arg, 6)) : NestedOK(PayloadsAt(ret.arg, 6)[i], 1)) =>
          /\ ret.res.out = "ok"
          /\ ret.res.services = ServiceNamesOf(ret.arg)
    /\ (ret.fn = "parseAllFileDescriptors" /\ NestedOK(ret.arg, 4)
            /\ Len(PayloadsAt(ret.arg, 4)) <= 1) =>
          /\ ret.res.out = "ok"
          /\ (ret.res.err = "nil") = (DescriptorEntriesOf(ret.arg) # << >>)
          /\ ret.res.fds = DescriptorEntriesOf(ret.arg)

\* the names (field 1) of the service entries (field 1) of a service list
EntryNamesOf(list) ==
    Flatten([j \in 1..Len(PayloadsAt(list, 1)) |-> PayloadsAt(PayloadsAt(list, 1)[j], 1)])

NonEmpty(names) == SelectSeq(names, LAMBDA name : name # << >>)

\* C25: on a well-formed message the service-list extractor returns the names
\* of the service entries of list_services_response in encounter order,
\* unsorted, whatever other fields stand before, between or after them at
\* any level; parseServiceList does so for the entries of a well-formed list.
C25_UnknownFieldsSkippedAsClaimed ==
    /\ (ret.fn = "parseListServicesResponse" /\ NestedOK(ret.arg, 6)
            /\ \A i \in 1..Len(PayloadsAt(ret.arg, 6)) : NestedOK(PayloadsAt(ret.arg, 6)[i], 1)) =>
          /\ ret.res.out = "ok"
          /\ ret.res.services = NonEmpty(ServiceNamesOf(ret.arg))
    /\ (ret.fn = "parseServiceList" /\ NestedOK(ret.arg, 1)) =>
          /\ ret.res.out = "ok"
          /\ ret.res.services = NonEmpty(EntryNamesOf(ret.arg))

\* C26: encodeListServicesRequest returns the two bytes 3a 00, and for every
\* symbol encodeFileContainingSymbolRequest returns a well-formed message of
\* exactly one field: field 4, length-delimited, carrying the symbol.
C26_RequestsWellFormedAsClaimed ==
    /\ ret.fn = "encodeListServicesRequest" => ret.res = << 58, 0 >>
    /\ ret.fn = "encodeFileContainingSymbolRequest" =>
          /\ IsMessage(ret.res)
          /\ Fields(ret.res) = << [num |-> 4, wire |-> 2, payload |-> ret.arg] >>

\* the lookups of a ReflectionSource
SourceLookups ==
    {"ReflectionSource.FindSymbol", "ReflectionSource.FindService",
     "ReflectionSource.FindMethod"}

\* a lookup has returned after the reflection call gave it descriptors
DescriptorsReturned ==
    /\ ReflectionDone /\ rc.op \in SourceLookups
    /\ FileContainingSymbolWithDeps(rc).out = "ok"
    /\ FileContainingSymbolWithDeps(rc).err = "nil"

\* C27: FindSymbol, FindService and FindMethod of a ReflectionSource each
\* build their registry from all the file descriptors the reflection call
\* returned, so a symbol declared in a file that imports other returned files
\* is found by all three.
C27_RegistryFromAllAsClaimed ==
    DescriptorsReturned =>
        LET all == ReflectedFiles(FileContainingSymbolWithDeps(rc).values)
            desc == FindDescriptorByName(all.files, rc.symbol)
        IN  /\ ret.res.files = all.files
            /\ (all.err = "nil" /\ desc # << >> /\ desc[1].kind = "service") =>
                  CASE rc.op = "ReflectionSource.FindMethod" ->
                          (ret.res.err = "nil") = (ByName(desc[1].methods, ret.method) # 0)
                    [] OTHER -> ret.res.err = "nil" /\ ret.res.values = << desc[1] >>

\* C28: every loop of the reflection extractors terminates: the cursor
\* moves forward in each iteration, also when a length varint overflows to a
\* negative number.
C28_ExtractorsTerminateAsClaimed ==
    ret.fn \in Extractors => ret.res.out # "hang"

\* C29: in every response DecodeResponse returns, whatever the number of
\* trailer frames, Status agrees with Trailers: with a grpc-status key Status
\* is present and its Code is the number of that value (0 when it has none),
\* and with a grpc-message key Status.Message is that value.
C29_StatusAgreesWithTrailersAsClaimed ==
    (Returned("DecodeResponse") /\ ret.res.err = "nil") =>
        LET resp == ret.res.resp
        IN  /\ GrpcStatusKey \in DOMAIN resp.Trailers =>
                  /\ ~resp.Status.nil
                  /\ resp.Status.Code = SscanfInt(resp.Trailers[GrpcStatusKey])
            /\ GrpcMessageKey \in DOMAIN resp.Trailers =>
                  /\ ~resp.Status.nil
                  /\ resp.Status.Message = resp.Trailers[GrpcMessageKey]

\* InvokeServerStream has returned on an HTTP 200 reply that was delivered
\* whole; all its frames declare their true length, far below 16 MiB
StreamOnWholeReply ==
    Returned("InvokeServerStream") /\ WholeReply /\ http.failAt = -1

\* C30: a client built by NewClient from Options whose MaxMessageSize is
\* left zero applies the default limit of 16 MiB: its InvokeServerStream
\* accepts every frame that declares at most 16 MiB, as the client built
\* from nil options does.
C30_UnsetLimitIsDefaultAsClaimed ==
    (StreamOnWholeReply /\ client = NewClient(Options(0))) =>
        ret.res.err # "failed to decode frame"

====
